---------------------------- MODULE Spec2Model ----------------------------
(***************************************************************************)
(* Model of the GENIE-OPS submission engine.                               *)
(*                                                                         *)
(* Part 1: WorkflowManager (backend/app/workflow/manager.py) together with *)
(* the operator endpoints that drive it (backend/app/api/jobs.py,          *)
(* backend/app/api/submissions.py) and the repository it writes through    *)
(* (backend/app/db/crud.py).                                               *)
(*                                                                         *)
(* The manager runs on one asyncio event loop.  A coroutine is atomic      *)
(* between two awaits, so every action below is one await-free stretch of  *)
(* code.  A processing task has three such stretches: its creation         *)
(* (asyncio.create_task), its first step up to the await of the pipeline,  *)
(* and its last step after the pipeline.  The done-callback of a task      *)
(* (_cleanup_task) is scheduled with call_soon when the task finishes and  *)
(* runs as a separate step of the loop.                                    *)
(*                                                                         *)
(* The loop runs in iterations.  An iteration first runs, in FIFO order,   *)
(* the handles that call_soon queued during the previous iteration (first  *)
(* steps of new tasks, done-callbacks), then the coroutines that timers    *)
(* and I/O woke up (the scheduler, a task whose pipeline returned, a       *)
(* request handler).  `ready` holds the handles of the current iteration   *)
(* still to run, `next` the handles queued for the iteration after it.     *)
(*                                                                         *)
(* Part 2: BrowserWorkerPool (backend/app/automation/browser_pool.py) and  *)
(* the worker processes it feeds (backend/app/automation/browser_worker.py)*)
(* over one command queue and one result queue per worker.  Callers of     *)
(* execute_command are coroutines of the same event loop: a caller is      *)
(* atomic from one `await asyncio.sleep(0.1)` to the next.  The workers    *)
(* are processes of their own and run concurrently with the callers.       *)
(* start() and stop() of the pool are synchronous: while stop() joins the  *)
(* workers the event loop runs no coroutine, and only the workers move.    *)
(*                                                                         *)
(* Part 3: the submission pipeline (backend/app/workflow/submitter.py),    *)
(* one action per stage of submit_to_directory, with what the browser or   *)
(* the form reader answers as the input of the stage.                      *)
(*                                                                         *)
(* Part 4: the command handlers of one browser worker                      *)
(* (backend/app/automation/browser_worker.py) with the page they work on,  *)
(* the endpoint that runs the pipeline for one submission                  *)
(* (backend/app/api/jobs.py, process_submission), and the analysis of a    *)
(* form by the form reader (backend/app/ai/form_reader.py), where a field  *)
(* is known by its selector.                                               *)
(***************************************************************************)
EXTENDS Integers, Sequences, FiniteSets, Bags, TLC

\* ------------------------------------------------------------------ sizes
NumSubmissions == 2
MaxDetached == 1
MaxRetryCount == 5
MaxRequests == 2
NumWorkers == 2
NumCallers == 2
MaxCommands == 3
MaxDeaths == 2
NumSessions == 2
MaxPicks == 4
TimeoutStep == 10
MaxTimeoutSteps == 20

\* WorkflowManager(max_concurrent=..., max_retries=...): max_retries is
\* `max_retries or settings.WORKFLOW_MAX_RETRIES`
max_concurrent == 1
WORKFLOW_MAX_RETRIES == 3
RaisedMaxRetries == 6
MaxFields == 2
MaxElements == 3
MaxMapFields == 3
MaxScore == 2
batch_size == 10
STOP_CEILING == 5

\* getattr(settings, 'BROWSER_WORKER_TIMEOUT', 60) and the floor of fill_form
default_timeout == 60
fill_form_floor == 120

Ids == 1..NumSubmissions

\* enumerate(self.workers): worker indices start at 0
Workers == 0..(NumWorkers - 1)
Callers == 1..NumCallers
CommandIds == 1..MaxCommands
SessionIds == 1..NumSessions

VARIABLES
    db,                \* the submissions table: id -> row
    is_running,        \* WorkflowManager.is_running
    scheduler_task,    \* "none" | "sleeping" | "cancelled"
    processing_tasks,  \* WorkflowManager.processing_tasks: id -> task or NoTask
    detached,          \* live tasks no longer referenced by processing_tasks
    ready,             \* handles of this loop iteration still to run, in order
    next,              \* handles queued by call_soon for the next loop iteration
    stop_pc,           \* position of WorkflowManager.stop()
    process_all_ids,   \* submission_ids still to visit by a running process_all()
    requests,          \* number of operator requests made so far
    max_retries,       \* WorkflowManager.max_retries, set by the constructor
    \* history variables: what has happened, read by no action
    recording,         \* which of the history variables this specification keeps
    fails,             \* id -> pipeline runs that ended in a failure (up to max_retries)
    captcha,           \* id -> a pipeline run has ended captcha_required
    runs,              \* id -> pipeline runs begun (up to max_retries + 1)
    last_request,      \* the latest operator request
    progress_tracking, \* id -> the percents written to the progress entry of
                       \* the id since its latest attempt began
    last_update        \* the latest update_data a processing task wrote after
                       \* its pipeline, with the result of that pipeline

mgrVars == <<db, is_running, scheduler_task, processing_tasks,
             detached, ready, next, stop_pc, process_all_ids, requests>>

\* max_retries, like recording, is set once and for all
histVars == <<max_retries, recording, fails, captcha, runs, last_request,
             progress_tracking, last_update>>

VARIABLES
    pool_is_running,   \* BrowserWorkerPool.is_running
    registered,        \* the lists workers, command_queues, result_queues are filled
    lifecycle,         \* position of the pool between start() and the return of stop()
    orphans,           \* live worker processes the pool holds no reference to
    alive,             \* worker index -> Process.is_alive()
    worker_index,      \* BrowserWorkerPool.worker_index
    session_workers,   \* BrowserWorkerPool.session_workers: session -> worker
    command_queues,    \* worker index -> commands sent and not yet dequeued
    result_queues,     \* worker index -> results sent and not yet taken
    worker_pc,         \* worker index -> "get" | "handling"
    worker_command,    \* worker index -> id of the command being handled, or 0
    calls,             \* caller -> its execute_command call
    issued,            \* number of command ids generated so far
    \* history variables
    outcomes,          \* command id -> what execute_command returned for it
    dequeued,          \* command id -> a worker has dequeued the command
    emitted,           \* command id -> number of results workers have sent for it
    sent_to,           \* command id -> the worker whose queue got the command
    buffered,          \* command id -> its result was once taken by another call
    session_of,        \* command id -> the session id its caller passed
    last_pick,         \* the latest selection of a worker
    last_round_robin   \* the latest round-robin selection and the workers then alive

poolHist == <<outcomes, dequeued, emitted, sent_to, buffered, session_of,
              last_pick, last_round_robin>>

poolVars == <<pool_is_running, registered, lifecycle, orphans, alive, worker_index,
              session_workers, command_queues, result_queues, worker_pc,
              worker_command, calls, issued, poolHist>>

VARIABLES
    hybrid_call,       \* the latest call of FormReader.analyze_form_hybrid
    extract_call,      \* the latest extraction of form fields from a DOM
    mapping_call,      \* the DOM-based mapping of a product to a form
    classify_call,     \* a call of FieldPurposeClassifier.classify, and its repetition
    timeout_call,      \* the latest computation of an effective timeout
    workflow           \* the run of SubmissionWorkflow.submit_to_directory

VARIABLES
    background_tasks,  \* id -> process_workflow tasks of POST /process/{id} not yet done
    worker_session     \* the page handle and the remembered URL of one
                       \* BrowserWorker, with the latest command it handled

calcVars == <<timeout_call, hybrid_call, extract_call, mapping_call, classify_call>>
wfVars == <<workflow>>
apiVars == <<background_tasks>>
handlerVars == <<worker_session>>

vars == <<mgrVars, histVars, poolVars, calcVars, wfVars, apiVars, handlerVars>>

\* ------------------------------------------------------------- statuses
Min(a, b) == IF a < b THEN a ELSE b

ARF(n) ==
    CASE n = 1 -> "auto_retry_failed_1"
      [] n = 2 -> "auto_retry_failed_2"
      [] n = 3 -> "auto_retry_failed_3"
      [] n = 4 -> "auto_retry_failed_4"
      [] OTHER -> "auto_retry_failed_n"

IsAutoRetryStopped(status) == status \in {ARF(n) : n \in 1..(STOP_CEILING - 1)}

\* ------------------------------------------------------------- repository
Unset == "unset"
UnsetCount == 0 - 1

\* crud.update_submission on a session whose identity map holds `loaded`
\* (the values this session read for the row).  get_submission_by_id returns
\* the object already in the identity map, setattr marks a column as changed
\* only when the new value differs from the loaded one, and commit writes
\* the changed columns only.  updated_at is refreshed by every UPDATE.
UpdateLoaded(row, loaded, status, retry_count) ==
    [status      |-> IF status = Unset \/ status = loaded.status
                     THEN row.status ELSE status,
     retry_count |-> IF retry_count = UnsetCount \/ retry_count = loaded.retry_count
                     THEN row.retry_count ELSE retry_count,
     cooled      |-> FALSE]

\* update_submission right after the row was read in the same session.
update_submission(row, status, retry_count) ==
    UpdateLoaded(row, row, status, retry_count)

\* ------------------------------------------------------------------ tasks
NoTask == [phase |-> "none"]
NewTask == [phase |-> "new", snap |-> 0, awaited |-> FALSE]
DoneTask == [phase |-> "done", snap |-> 0, awaited |-> FALSE]

Live(t) == t.phase \in {"new", "run"}

\* Handles of the event loop: the first step of the task created for an id,
\* and the done-callback `lambda t, sid=...: self._cleanup_task(sid)`.
FirstStep(s) == <<"first_step", s>>
Cleanup(s) == <<"cleanup", s>>

\* `id not in processing_tasks or processing_tasks[id].done()`
Startable(pt, s) == pt[s] = NoTask \/ pt[s].phase = "done"

\* len([t for t in processing_tasks.values() if not t.done()])
ActiveCount(pt) == Cardinality({s \in Ids : Live(pt[s])})

LiveTasks(s) ==
    (IF Live(processing_tasks[s]) THEN 1 ELSE 0)
    + BagCardinality([o \in {x \in BagToSet(detached) : x.sid = s}
                         |-> CopiesIn(o, detached)])

TotalLive == BagCardinality(detached) + ActiveCount(processing_tasks)

\* All orderings of a set of ids: query.all() has no ORDER BY.
Orderings(S) ==
    {q \in UNION {[1..n -> S] : n \in {Cardinality(S)}} :
        \A i, j \in 1..Cardinality(S) : i # j => q[i] # q[j]}

\* ------------------------------------------------- process_pending_submissions
\* asyncio.create_task(self._process_submission(id)) stored under the id: the
\* state is [db, pt, queued], queued being the handles call_soon has queued.
CreateTask(st, s) ==
    [st EXCEPT !.pt[s] = NewTask, !.queued = Append(@, FirstStep(s))]

RECURSIVE StartEach(_, _)
StartEach(st, seq) ==
    IF seq = <<>> THEN st
    ELSE LET s == Head(seq) IN
         StartEach(IF Startable(st.pt, s) THEN CreateTask(st, s) ELSE st,
                   Tail(seq))

AvailableSlots(pt, mc) == mc - ActiveCount(pt)

process_pending_submissions(st, mc, order) ==
    LET pending == SubSeq(order, 1, Min(batch_size, Len(order))) IN
    IF pending = <<>> THEN st
    ELSE LET available_slots == AvailableSlots(st.pt, mc) IN
         IF available_slots <= 0 THEN st
         ELSE StartEach(st, SubSeq(pending, 1, Min(available_slots, Len(pending))))

\* -------------------------------------- process_failed_submissions_auto_retry
\* An auto-retry pass that requeues nothing.
RetryBudgetNeverLeft(retry_count) == FALSE

RetryBudgetLeft(retry_count) == retry_count < max_retries

RECURSIVE AutoRetryLoop(_, _, _)
AutoRetryLoop(st, mc, seq) ==
    IF seq = <<>> THEN st
    ELSE LET s == Head(seq)
             row == st.db[s] IN
         IF Live(st.pt[s]) THEN AutoRetryLoop(st, mc, Tail(seq))
         ELSE IF IsAutoRetryStopped(row.status) THEN AutoRetryLoop(st, mc, Tail(seq))
         ELSE IF ~row.cooled THEN AutoRetryLoop(st, mc, Tail(seq))
         ELSE IF ~RetryBudgetLeft(row.retry_count) THEN AutoRetryLoop(st, mc, Tail(seq))
         ELSE IF ActiveCount(st.pt) >= mc THEN st
         ELSE AutoRetryLoop(
                CreateTask([st EXCEPT !.db[s] =
                               update_submission(row, "pending", row.retry_count + 1)],
                           s),
                mc, Tail(seq))

process_failed_submissions_auto_retry(st, running, mc, order) ==
    IF ~running THEN st ELSE AutoRetryLoop(st, mc, order)

\* ------------------------------------------------------- _process_submission
Outcomes == {"success", "error", "captcha_required", "pending_filled",
             "pending_empty", "unknown", "exception"}

\* First step: from the load of the row to the await of the pipeline.
\* Returns the row and whether the task goes on to run the pipeline.
ExceededMaxRetries(retry_count) == retry_count >= max_retries

ProcessStart(row, refs_ok) ==
    IF row.status # "pending" THEN [row |-> row, runs |-> FALSE]
    ELSE IF ExceededMaxRetries(row.retry_count)
         THEN [row |-> update_submission(row, "failed", UnsetCount), runs |-> FALSE]
    ELSE IF ~refs_ok
         THEN [row |-> update_submission(row, "failed", UnsetCount), runs |-> FALSE]
    ELSE [row |-> row, runs |-> TRUE]

\* Last step: the write after the pipeline returned `outcome`.  `snap` is the
\* retry_count the task loaded in its first step; the status it loaded is
\* "pending" (ProcessStart returns otherwise).
\* The update that sets status submitted without the timestamp.
UpdateDataUntimed(status, retry_count, submitted_at) ==
    [status |-> status, retry_count |-> retry_count, submitted_at |-> FALSE]

\* update_data: the status and the retry_count of the update, and whether it
\* carries submitted_at.
UpdateData(status, retry_count, submitted_at) ==
    [status |-> status, retry_count |-> retry_count, submitted_at |-> submitted_at]

\* The update the last step builds for `outcome`, for a task that loaded the
\* row `loaded`; for an exception, the update of the `except` block.
update_data(loaded, outcome) ==
    LET is_auto_retry_stopped == IsAutoRetryStopped(loaded.status) IN
    CASE outcome = "success" -> UpdateData("submitted", UnsetCount, TRUE)
      [] outcome = "error" ->
            IF loaded.retry_count < max_retries - 1 /\ ~is_auto_retry_stopped
            THEN UpdateData("failed", UnsetCount, FALSE)
            ELSE IF is_auto_retry_stopped
                 THEN UpdateData(loaded.status, loaded.retry_count, FALSE)
                 ELSE UpdateData("failed", loaded.retry_count, FALSE)
      [] outcome = "captcha_required" -> UpdateData("failed", UnsetCount, FALSE)
      [] outcome = "pending_filled" -> UpdateData("submitted", UnsetCount, TRUE)
      [] outcome = "pending_empty" -> UpdateData("failed", UnsetCount, FALSE)
      [] outcome = "unknown" -> UpdateData("failed", UnsetCount, FALSE)
      [] outcome = "exception" ->
            IF loaded.retry_count < max_retries - 1
            THEN UpdateData("pending", loaded.retry_count + 1, FALSE)
            ELSE UpdateData("failed", UnsetCount, FALSE)

ProcessFinish(row, snap, outcome) ==
    LET loaded == [status |-> "pending", retry_count |-> snap]
        data == update_data(loaded, outcome)
    IN UpdateLoaded(row, loaded, data.status, data.retry_count)

\* ------------------------------------------------------------------- Init
NoRequest == <<"none", 0>>

NoUpdate == [outcome |-> "none", status |-> Unset, submitted_at |-> FALSE]

InitRow == [status |-> "pending", retry_count |-> 0, cooled |-> TRUE]

InitManager ==
    /\ db = [s \in Ids |-> InitRow]
    /\ is_running = FALSE
    /\ scheduler_task = "none"
    /\ processing_tasks = [s \in Ids |-> NoTask]
    /\ detached = EmptyBag
    /\ ready = <<>>
    /\ next = <<>>
    /\ stop_pc = "idle"
    /\ process_all_ids = <<>>
    /\ requests = 0
    /\ fails = [s \in Ids |-> 0]
    /\ captcha = [s \in Ids |-> FALSE]
    /\ runs = [s \in Ids |-> 0]
    /\ last_request = NoRequest
    /\ progress_tracking = [s \in Ids |-> <<>>]
    /\ last_update = NoUpdate

\* ---------------------------------------------------------------- history
Failure(outcome) == outcome \notin {"success", "pending_filled"}

\* The percents the first step of _process_submission writes: none when it
\* returns before the entry is made, 0 for the entry, then 20 and 50 on the
\* way to the pipeline.
StartProgress(row, refs_ok, before) ==
    IF row.status # "pending" \/ ExceededMaxRetries(row.retry_count) THEN before
    ELSE IF ~refs_ok THEN <<0>>
    ELSE <<0, 20, 50>>

\* The percents its last step writes: 80 once the pipeline has returned, then
\* 100 for a submission taken as done and 0 for every other result; 0 alone
\* when the pipeline raised.
FinishProgress(outcome) ==
    CASE outcome = "exception" -> <<0>>
      [] outcome \in {"success", "pending_filled"} -> <<80, 100>>
      [] OTHER -> <<80, 0>>

RecordStart(s, refs_ok) ==
    /\ progress_tracking' =
          IF "writes" \in recording
          THEN [progress_tracking EXCEPT ![s] = StartProgress(db[s], refs_ok, @)]
          ELSE progress_tracking
    /\ runs' = IF "runs" \in recording /\ ProcessStart(db[s], refs_ok).runs
               THEN [runs EXCEPT ![s] = Min(@ + 1, max_retries + 1)] ELSE runs
    /\ UNCHANGED <<max_retries, recording, fails, captcha, last_request, last_update>>

RecordOutcome(s, snap, outcome) ==
    /\ fails' = IF "fails" \in recording /\ Failure(outcome)
                THEN [fails EXCEPT ![s] = Min(@ + 1, max_retries)] ELSE fails
    /\ captcha' = IF "captcha" \in recording /\ outcome = "captcha_required"
                  THEN [captcha EXCEPT ![s] = TRUE] ELSE captcha
    /\ progress_tracking' =
          IF "writes" \in recording
          THEN [progress_tracking EXCEPT ![s] = @ \o FinishProgress(outcome)]
          ELSE progress_tracking
    /\ last_update' =
          IF "writes" \in recording
          THEN LET data == update_data([status |-> "pending", retry_count |-> snap],
                                       outcome)
               IN [outcome |-> outcome, status |-> data.status,
                   submitted_at |-> data.submitted_at]
          ELSE last_update
    /\ UNCHANGED <<max_retries, recording, runs, last_request>>

RecordRequest(kind, s) ==
    /\ last_request' = IF "requests" \in recording THEN <<kind, s>> ELSE last_request
    /\ UNCHANGED <<max_retries, recording, fails, captcha, runs, progress_tracking,
                   last_update>>

\* ---------------------------------------------------------------- actions
\* A coroutine woken by a timer or by I/O runs after the handles of the
\* iteration.
Woken == ready = <<>>

\* The handle the loop runs now.
Runs(h) == ready # <<>> /\ Head(ready) = h

\* The loop goes on to its next iteration.
LoopTurn ==
    /\ ready = <<>>
    /\ next # <<>>
    /\ ready' = next
    /\ next' = <<>>
    /\ UNCHANGED <<db, is_running, scheduler_task, processing_tasks, detached,
                   stop_pc, process_all_ids, requests, histVars, poolVars, calcVars, wfVars, apiVars, handlerVars>>

\* WorkflowManager.start
Start ==
    /\ ~is_running
    /\ stop_pc = "idle"
    /\ is_running' = TRUE
    /\ scheduler_task' = "sleeping"
    /\ UNCHANGED <<db, processing_tasks, detached, ready, next, stop_pc,
                   process_all_ids, requests, histVars, poolVars, calcVars, wfVars, apiVars, handlerVars>>

PendingIds(d) == {s \in Ids : d[s].status = "pending"}
FailedIds(d) == {s \in Ids : d[s].status = "failed"}

\* One pass of _scheduler_loop: process_pending_submissions, then (if still
\* running) process_failed_submissions_auto_retry, then sleep.  Neither call
\* awaits, so the pass is one step.
SchedulerCycle ==
    /\ scheduler_task = "sleeping"
    /\ is_running
    /\ Woken
    /\ \E po \in Orderings(PendingIds(db)) :
        LET st1 == process_pending_submissions(
                       [db |-> db, pt |-> processing_tasks, queued |-> next],
                       max_concurrent, po) IN
        \E fo \in Orderings(FailedIds(db)) :
            LET st == process_failed_submissions_auto_retry(
                          st1, is_running, max_concurrent, fo) IN
            /\ db' = st.db
            /\ processing_tasks' = st.pt
            /\ next' = st.queued
    /\ UNCHANGED <<is_running, scheduler_task, detached, ready, stop_pc,
                   process_all_ids, requests, histVars, poolVars, calcVars, wfVars, apiVars, handlerVars>>

\* First step of a task still referenced by processing_tasks.
TaskStartTracked ==
    \E s \in Ids : \E refs_ok \in BOOLEAN :
        /\ Runs(FirstStep(s))
        /\ processing_tasks[s].phase = "new"
        /\ LET r == ProcessStart(db[s], refs_ok) IN
            /\ db' = [db EXCEPT ![s] = r.row]
            /\ processing_tasks' = [processing_tasks EXCEPT ![s] =
                    IF r.runs THEN [@ EXCEPT !.phase = "run", !.snap = db[s].retry_count]
                    ELSE DoneTask]
            /\ next' = IF r.runs THEN next ELSE Append(next, Cleanup(s))
        /\ ready' = Tail(ready)
        /\ RecordStart(s, refs_ok)
        /\ UNCHANGED <<is_running, scheduler_task, detached, stop_pc, process_all_ids,
                       requests, poolVars, calcVars, wfVars, apiVars, handlerVars>>

\* Last step of a task still referenced by processing_tasks.
TaskFinishTracked ==
    \E s \in Ids : \E outcome \in Outcomes :
        /\ Woken
        /\ processing_tasks[s].phase = "run"
        /\ db' = [db EXCEPT ![s] = ProcessFinish(@, processing_tasks[s].snap, outcome)]
        /\ processing_tasks' = [processing_tasks EXCEPT ![s] = DoneTask]
        /\ next' = Append(next, Cleanup(s))
        /\ RecordOutcome(s, processing_tasks[s].snap, outcome)
        /\ UNCHANGED <<is_running, scheduler_task, detached, ready, stop_pc,
                       process_all_ids, requests, poolVars, calcVars, wfVars, apiVars, handlerVars>>

\* The same two steps for a task processing_tasks no longer references.
TaskStartDetached ==
    \E o \in BagToSet(detached) : \E refs_ok \in BOOLEAN :
        /\ Runs(FirstStep(o.sid))
        /\ processing_tasks[o.sid].phase # "new"
        /\ o.phase = "new"
        /\ LET r == ProcessStart(db[o.sid], refs_ok) IN
            /\ db' = [db EXCEPT ![o.sid] = r.row]
            /\ detached' = IF r.runs
                    THEN (detached (-) SetToBag({o}))
                         (+) SetToBag({[o EXCEPT !.phase = "run",
                                                 !.snap = db[o.sid].retry_count]})
                    ELSE detached (-) SetToBag({o})
            /\ next' = IF r.runs THEN next ELSE Append(next, Cleanup(o.sid))
        /\ ready' = Tail(ready)
        /\ RecordStart(o.sid, refs_ok)
        /\ UNCHANGED <<is_running, scheduler_task, processing_tasks, stop_pc,
                       process_all_ids, requests, poolVars, calcVars, wfVars, apiVars, handlerVars>>

TaskFinishDetached ==
    \E o \in BagToSet(detached) : \E outcome \in Outcomes :
        /\ Woken
        /\ o.phase = "run"
        /\ db' = [db EXCEPT ![o.sid] = ProcessFinish(@, o.snap, outcome)]
        /\ detached' = detached (-) SetToBag({o})
        /\ next' = Append(next, Cleanup(o.sid))
        /\ RecordOutcome(o.sid, o.snap, outcome)
        /\ UNCHANGED <<is_running, scheduler_task, processing_tasks, ready, stop_pc,
                       process_all_ids, requests, poolVars, calcVars, wfVars, apiVars, handlerVars>>

\* _cleanup_task(submission_id): the done-callback of a finished task deletes
\* whatever processing_tasks holds under the id.
CleanupTask ==
    \E s \in Ids :
        /\ Runs(Cleanup(s))
        /\ Live(processing_tasks[s]) => BagCardinality(detached) < MaxDetached
        /\ ready' = Tail(ready)
        /\ processing_tasks' = [processing_tasks EXCEPT ![s] = NoTask]
        /\ detached' = IF Live(processing_tasks[s])
                       THEN detached (+) SetToBag({[sid |-> s,
                                phase |-> processing_tasks[s].phase,
                                snap |-> processing_tasks[s].snap,
                                awaited |-> processing_tasks[s].awaited]})
                       ELSE detached
        /\ UNCHANGED <<db, is_running, scheduler_task, next, stop_pc, process_all_ids,
                       requests, histVars, poolVars, calcVars, wfVars, apiVars, handlerVars>>

\* Thirty seconds pass since the last update of a failed row; the loop has
\* long run every handle it had queued.
CooldownElapses ==
    \E s \in Ids :
        /\ ready = <<>>
        /\ next = <<>>
        /\ db[s].status = "failed"
        /\ ~db[s].cooled
        /\ db' = [db EXCEPT ![s].cooled = TRUE]
        /\ UNCHANGED <<is_running, scheduler_task, processing_tasks,
                       detached, ready, next, stop_pc, process_all_ids, requests,
                       histVars, poolVars, calcVars, wfVars, apiVars, handlerVars>>

\* ------------------------------------------------------ WorkflowManager.stop
\* stop() up to `await self.scheduler_task`: the flag is cleared and the
\* scheduler, which only ever waits in asyncio.sleep, is cancelled there.
StopBegin ==
    /\ is_running
    /\ stop_pc = "idle"
    /\ Woken
    /\ is_running' = FALSE
    /\ scheduler_task' = "cancelled"
    /\ stop_pc' = "await_scheduler"
    /\ UNCHANGED <<db, processing_tasks, detached, ready, next, process_all_ids,
                   requests, histVars, poolVars, calcVars, wfVars, apiVars, handlerVars>>

\* `if self.processing_tasks: await asyncio.gather(*self.processing_tasks.values())`
Gathered(pt) == [s \in Ids |-> IF Live(pt[s]) THEN [pt[s] EXCEPT !.awaited = TRUE]
                                ELSE pt[s]]

StopGather ==
    /\ stop_pc = "await_scheduler"
    /\ Woken
    /\ IF \E s \in Ids : processing_tasks[s] # NoTask
       THEN /\ processing_tasks' = Gathered(processing_tasks)
            /\ stop_pc' = "gather"
       ELSE /\ stop_pc' = "stopped"
            /\ UNCHANGED processing_tasks
    /\ UNCHANGED <<db, is_running, scheduler_task, detached, ready, next,
                   process_all_ids, requests, histVars, poolVars, calcVars, wfVars, apiVars, handlerVars>>

AwaitedLive ==
    \/ \E s \in Ids : Live(processing_tasks[s]) /\ processing_tasks[s].awaited
    \/ \E o \in BagToSet(detached) : o.awaited

\* gather returns once every task it was given is done.
StopReturn ==
    /\ stop_pc = "gather"
    /\ Woken
    /\ ~AwaitedLive
    /\ stop_pc' = "stopped"
    /\ UNCHANGED <<db, is_running, scheduler_task, processing_tasks, detached,
                   ready, next, process_all_ids, requests, histVars, poolVars, calcVars, wfVars, apiVars, handlerVars>>

\* ------------------------------------------------------- operator endpoints
\* Requests are served between the startup and the shutdown of the lifespan,
\* that is after start() and before stop().
Serving == scheduler_task = "sleeping" /\ Woken

\* POST /workflow/process-pending: process_pending_submissions on its own.
TriggerProcessing ==
    /\ Serving
    /\ requests < MaxRequests
    /\ requests' = requests + 1
    /\ \E po \in Orderings(PendingIds(db)) :
        LET st == process_pending_submissions(
                      [db |-> db, pt |-> processing_tasks, queued |-> next],
                      max_concurrent, po) IN
        /\ processing_tasks' = st.pt
        /\ next' = st.queued
    /\ UNCHANGED <<db, is_running, scheduler_task, detached, ready, stop_pc,
                   process_all_ids, poolVars, calcVars, wfVars, apiVars, handlerVars>>
    /\ RecordRequest("process_pending", 0)

\* POST /process-all: the ids of the pending rows are read by the request,
\* process_all() visits them later as a background task.
ProcessAllRequest ==
    /\ Serving
    /\ requests < MaxRequests
    /\ requests' = requests + 1
    /\ process_all_ids = <<>>
    /\ PendingIds(db) # {}
    /\ \E po \in Orderings(PendingIds(db)) : \E limit \in 1..Len(po) :
        process_all_ids' = SubSeq(po, 1, limit)
    /\ UNCHANGED <<db, is_running, scheduler_task, processing_tasks, detached,
                   ready, next, stop_pc, poolVars, calcVars, wfVars, apiVars, handlerVars>>
    /\ RecordRequest("process_all", 0)

\* process_all() from one `await asyncio.sleep(0.5)` to the next: ids with a
\* live task are passed over, the first other id gets a task.
RECURSIVE SkipBusy(_, _)
SkipBusy(pt, seq) ==
    IF seq = <<>> \/ Startable(pt, Head(seq)) THEN seq ELSE SkipBusy(pt, Tail(seq))

ProcessAllStep ==
    /\ process_all_ids # <<>>
    /\ Woken
    /\ LET rest == SkipBusy(processing_tasks, process_all_ids) IN
        IF rest = <<>>
        THEN /\ process_all_ids' = <<>>
             /\ UNCHANGED <<processing_tasks, next>>
        ELSE LET st == CreateTask([db |-> db, pt |-> processing_tasks,
                                   queued |-> next], Head(rest)) IN
             /\ processing_tasks' = st.pt
             /\ next' = st.queued
             /\ process_all_ids' = Tail(rest)
    /\ UNCHANGED <<db, is_running, scheduler_task, detached, ready, stop_pc,
                   requests, histVars, poolVars, calcVars, wfVars, apiVars, handlerVars>>

\* WorkflowManager.stop_auto_retry(submission_id), returning True.
StopCounter(retry_count) == Min(retry_count + 1, STOP_CEILING)

stop_auto_retry(row) ==
    LET new_retry_count == StopCounter(row.retry_count) IN
    update_submission(row,
                      IF new_retry_count >= STOP_CEILING THEN "failed"
                      ELSE ARF(new_retry_count),
                      new_retry_count)

StopAutoRetry ==
    /\ Serving
    /\ requests < MaxRequests
    /\ requests' = requests + 1
    /\ \E s \in Ids :
        /\ db' = [db EXCEPT ![s] = stop_auto_retry(@)]
        /\ RecordRequest("stop_auto_retry", s)
    /\ UNCHANGED <<is_running, scheduler_task, processing_tasks, detached,
                   ready, next, stop_pc, process_all_ids, poolVars, calcVars, wfVars, apiVars, handlerVars>>

\* POST /submissions/{id}/retry
RetryAllowed(status) == status \in {"failed", "pending"}

retry_submission(row) == update_submission(row, "pending", row.retry_count + 1)

RetrySubmission ==
    /\ Serving
    /\ requests < MaxRequests
    /\ requests' = requests + 1
    /\ \E s \in Ids :
        /\ RetryAllowed(db[s].status)
        /\ db[s].retry_count < MaxRetryCount
        /\ db' = [db EXCEPT ![s] = retry_submission(@)]
        /\ RecordRequest("retry", s)
    /\ UNCHANGED <<is_running, scheduler_task, processing_tasks, detached,
                   ready, next, stop_pc, process_all_ids, poolVars, calcVars, wfVars, apiVars, handlerVars>>

\* WorkflowManager.process_failed_submissions for the failed rows `old`, those
\* last updated before the cutoff: back to pending, retry_count as it is.
process_failed_submissions(d, old) ==
    [s \in Ids |-> IF s \in old /\ d[s].retry_count < max_retries
                   THEN update_submission(d[s], "pending", UnsetCount)
                   ELSE d[s]]

\* POST /workflow/retry-failed, with any max_age_hours.  The cutoff is taken
\* from datetime.now(), which carries no time zone: when the driver returns
\* updated_at with a time zone the comparison of the two raises TypeError
\* before any row is written (`comparable` is FALSE).
RetryFailedSubmissions ==
    /\ Serving
    /\ requests < MaxRequests
    /\ requests' = requests + 1
    /\ \E comparable \in BOOLEAN : \E old \in SUBSET FailedIds(db) :
        /\ old # {}
        /\ db' = IF comparable THEN process_failed_submissions(db, old) ELSE db
    /\ RecordRequest("retry_failed", 0)
    /\ UNCHANGED <<is_running, scheduler_task, processing_tasks, detached,
                   ready, next, stop_pc, process_all_ids, poolVars, calcVars, wfVars,
                   apiVars, handlerVars>>

\* POST /process/{submission_id}: a pending or failed row is marked submitted
\* and the pipeline is run for it in a background task of the request.
ProcessSubmission ==
    /\ Serving
    /\ requests < MaxRequests
    /\ requests' = requests + 1
    /\ \E s \in Ids :
        /\ db[s].status \in {"pending", "failed"}
        /\ db' = [db EXCEPT ![s] = update_submission(@, "submitted", UnsetCount)]
        /\ background_tasks' = [background_tasks EXCEPT ![s] = @ + 1]
        /\ RecordRequest("process", s)
    /\ UNCHANGED <<is_running, scheduler_task, processing_tasks, detached,
                   ready, next, stop_pc, process_all_ids, poolVars, calcVars, wfVars,
                   handlerVars>>

\* The statuses a result of submit_to_directory can carry.
ResultStatuses == {"success", "error", "captcha_required", "pending", "unknown"}

\* The write of process_workflow for a result of the pipeline: the status of
\* the result is taken over as it is unless it is success, error or
\* captcha_required.  `timestamp`: the update sets submitted_at.
process_workflow(result) ==
    CASE result = "exception" -> [status |-> "failed", timestamp |-> FALSE]
      [] result = "success" -> [status |-> "submitted", timestamp |-> TRUE]
      [] result \in {"error", "captcha_required"} ->
            [status |-> "failed", timestamp |-> FALSE]
      [] OTHER -> [status |-> result, timestamp |-> FALSE]

\* The background task of the request after its pipeline returned or raised.
ProcessWorkflow ==
    \E s \in Ids : \E result \in ResultStatuses \cup {"exception"} :
        /\ Woken
        /\ background_tasks[s] > 0
        /\ background_tasks' = [background_tasks EXCEPT ![s] = @ - 1]
        /\ db' = [db EXCEPT ![s] =
                     update_submission(@, process_workflow(result).status, UnsetCount)]
        /\ UNCHANGED <<is_running, scheduler_task, processing_tasks, detached,
                       ready, next, stop_pc, process_all_ids, requests, histVars,
                       poolVars, calcVars, wfVars, handlerVars>>

\* ======================================================= BrowserWorkerPool
\* A BrowserResult as far as correlation goes: handle_command answers every
\* command with a result that carries the command's id.
Result(command_id) == [command_id |-> command_id]

NoCall == [pc |-> "idle", command_id |-> 0, worker |-> 0, unmatched |-> <<>>,
           expired |-> FALSE]

\* `session_id: Optional[str] = None`
NoSession == 0

\* no entry in session_workers / no worker to return (RuntimeError)
NoWorker == 0 - 1

\* `command_queue.put(None)`: the shutdown signal on a command queue
Shutdown == 0

NoPick == [n |-> 0, index |-> NoWorker, round_robin |-> FALSE,
           session_id |-> NoSession, reassigned |-> FALSE]

InitPool ==
    /\ pool_is_running = FALSE
    /\ registered = FALSE
    /\ lifecycle = [pc |-> "new", joined |-> 0]
    /\ orphans = 0
    /\ alive = [w \in Workers |-> FALSE]
    /\ worker_index = 0
    /\ session_workers = [s \in SessionIds |-> NoWorker]
    /\ command_queues = [w \in Workers |-> <<>>]
    /\ result_queues = [w \in Workers |-> <<>>]
    /\ worker_pc = [w \in Workers |-> "get"]
    /\ worker_command = [w \in Workers |-> 0]
    /\ calls = [c \in Callers |-> NoCall]
    /\ issued = 0
    /\ outcomes = [k \in CommandIds |-> <<>>]
    /\ dequeued = [k \in CommandIds |-> FALSE]
    /\ emitted = [k \in CommandIds |-> 0]
    /\ sent_to = [k \in CommandIds |-> NoWorker]
    /\ buffered = [k \in CommandIds |-> FALSE]
    /\ session_of = [k \in CommandIds |-> NoSession]
    /\ last_pick = NoPick
    /\ last_round_robin = [index |-> NoWorker, alive |-> {}]

\* BrowserWorkerPool.cleanup: the lists of workers and queues are cleared and
\* the pool is marked not running.  The processes of the cleared list are
\* not touched: those still alive go on running outside the pool.
cleanup(al) ==
    /\ registered' = FALSE
    /\ pool_is_running' = FALSE
    /\ alive' = [w \in Workers |-> FALSE]
    /\ orphans' = orphans + Cardinality({w \in Workers : al[w]})

\* BrowserWorkerPool.start, called once when the application starts: every
\* worker is spawned, and `dead` are the workers found dead at the
\* verification half a second later.
PoolStart ==
    \E dead \in SUBSET Workers :
        /\ lifecycle.pc = "new"
        /\ ~pool_is_running
        /\ IF dead # {}
           THEN /\ cleanup([w \in Workers |-> w \notin dead])
                /\ lifecycle' = [lifecycle EXCEPT !.pc = "start_failed"]
           ELSE /\ pool_is_running' = TRUE
                /\ registered' = TRUE
                /\ alive' = [w \in Workers |-> TRUE]
                /\ lifecycle' = [lifecycle EXCEPT !.pc = "started"]
                /\ UNCHANGED orphans
        /\ UNCHANGED <<worker_index, session_workers, command_queues, result_queues,
                       worker_pc, worker_command, calls, issued, poolHist,
                       mgrVars, histVars, calcVars, wfVars, apiVars, handlerVars>>

\* A worker process dies.
WorkerDies ==
    \E w \in Workers :
        /\ alive[w]
        /\ Cardinality({v \in Workers : ~alive[v]}) < MaxDeaths
        /\ alive' = [alive EXCEPT ![w] = FALSE]
        /\ UNCHANGED <<pool_is_running, registered, lifecycle, orphans, worker_index,
                       session_workers, command_queues, result_queues, worker_pc,
                       worker_command, calls, issued, poolHist,
                       mgrVars, histVars, calcVars, wfVars, apiVars, handlerVars>>

\* [i for i, w in enumerate(self.workers) if w.is_alive()], in index order
RECURSIVE AliveFrom(_, _)
AliveFrom(al, w) ==
    IF w >= NumWorkers THEN <<>>
    ELSE (IF al[w] THEN <<w>> ELSE <<>>) \o AliveFrom(al, w + 1)

\* The list without the test of is_alive().
all_workers(al) == AliveFrom([w \in Workers |-> TRUE], 0)

alive_workers(al) == AliveFrom(al, 0)

\* `x in alive_workers`
IsIn(seq, x) == \E i \in 1..Len(seq) : seq[i] = x

\* list.index, counted from 0
IndexIn(seq, x) == (CHOOSE i \in 1..Len(seq) : seq[i] = x) - 1

\* `assigned_worker in alive_workers` without the test.
AssignedAliveUnchecked(aw, assigned_worker) == TRUE

\* `if assigned_worker in alive_workers`
AssignedAlive(aw, assigned_worker) == IsIn(aw, assigned_worker)

\* _get_next_worker(session_id): the worker to use (NoWorker for the
\* RuntimeError), the new worker_index and the new session_workers.
get_next_worker(al, wi, sw, session_id) ==
    LET aw == alive_workers(al)
        known == session_id # NoSession /\ sw[session_id] # NoWorker
        reuse == known /\ AssignedAlive(aw, sw[session_id])
        forgotten == IF known /\ ~reuse
                     THEN [sw EXCEPT ![session_id] = NoWorker] ELSE sw
        index == IF IsIn(aw, wi) THEN wi ELSE aw[1]
        current_pos == IndexIn(aw, index)
        next_pos == (current_pos + 1) % Len(aw)
    IN  IF aw = <<>>
        THEN [index |-> NoWorker, worker_index |-> wi, session_workers |-> sw]
        ELSE IF reuse
        THEN [index |-> sw[session_id], worker_index |-> wi, session_workers |-> sw]
        ELSE [index |-> index,
              worker_index |-> aw[next_pos + 1],
              session_workers |-> IF session_id # NoSession
                                  THEN [forgotten EXCEPT ![session_id] = index]
                                  ELSE forgotten]

\* Whether the selection went through the round-robin branch.
RoundRobin(al, sw, session_id) ==
    ~(/\ session_id # NoSession
      /\ sw[session_id] # NoWorker
      /\ AssignedAlive(alive_workers(al), sw[session_id]))

RecordPick(chosen, al, sw, session_id) ==
    IF "picks" \in recording
    THEN /\ last_pick' = [n |-> last_pick.n + 1, index |-> chosen.index,
                          round_robin |-> RoundRobin(al, sw, session_id),
                          session_id |-> session_id,
                          reassigned |-> /\ session_id # NoSession
                                         /\ sw[session_id] # NoWorker
                                         /\ ~al[sw[session_id]]]
         /\ last_round_robin' =
               IF RoundRobin(al, sw, session_id) /\ chosen.index # NoWorker
               THEN [index |-> chosen.index, alive |-> {w \in Workers : al[w]}]
               ELSE last_round_robin
    ELSE UNCHANGED <<last_pick, last_round_robin>>

\* _get_next_worker called on its own, with or without a session id.
GetNextWorker ==
    \E session_id \in SessionIds \cup {NoSession} :
        /\ pool_is_running
        /\ last_pick.n < MaxPicks
        /\ LET chosen == get_next_worker(alive, worker_index, session_workers,
                                         session_id)
           IN /\ worker_index' = chosen.worker_index
              /\ session_workers' = chosen.session_workers
              /\ RecordPick(chosen, alive, session_workers, session_id)
        /\ UNCHANGED <<pool_is_running, registered, lifecycle, orphans, alive,
                       command_queues, result_queues, worker_pc, worker_command,
                       calls, issued, outcomes, dequeued, emitted, sent_to,
                       buffered, session_of,
                       mgrVars, histVars, calcVars, wfVars, apiVars, handlerVars>>

\* The buffered results are lost instead of being put back.
PutBackDropped(queue, unmatched) == queue

\* Put the buffered results back on the result queue, in order.
PutBack(queue, unmatched) == queue \o unmatched

\* The id test of execute_command on a result taken from the queue.
MatchesAnyResult(result, command_id) == result.command_id \in CommandIds

Matches(result, command_id) == result.command_id = command_id

\* One pass of the `while True` loop of execute_command before the deadline,
\* for call `call` polling `queue`; `sees` is what result_queue.empty() and
\* get_nowait() make of a non-empty queue.  Gives the call, the queue, the
\* result returned, if any, and the result put in the buffer, if any.
PollPass(call, queue, sees) ==
    LET took == sees /\ queue # <<>>
        result == Head(queue)
        rest == IF took THEN Tail(queue) ELSE queue
    IN  IF took /\ Matches(result, call.command_id)
        THEN [call |-> [call EXCEPT !.pc = "done", !.unmatched = <<>>],
              queue |-> PutBack(rest, call.unmatched),
              returned |-> <<result>>,
              stored |-> <<>>]
        ELSE LET unmatched == IF took THEN Append(call.unmatched, result)
                              ELSE call.unmatched
                 stored == IF took THEN <<result>> ELSE <<>>
                 mine == {i \in 1..Len(unmatched) :
                             Matches(unmatched[i], call.command_id)}
             IN  IF mine # {}
                 THEN LET i == CHOOSE j \in mine : \A k \in mine : j <= k
                          remaining == SubSeq(unmatched, 1, i - 1)
                                       \o SubSeq(unmatched, i + 1, Len(unmatched))
                      IN [call |-> [call EXCEPT !.pc = "done", !.unmatched = <<>>],
                          queue |-> PutBack(rest, remaining),
                          returned |-> <<unmatched[i]>>,
                          stored |-> stored]
                 ELSE [call |-> [call EXCEPT !.unmatched = unmatched],
                       queue |-> rest,
                       returned |-> <<>>,
                       stored |-> stored]

\* What execute_command hands to its caller.
ResultOutcome(result) == <<"result", result.command_id>>
\* The TimeoutError result without the id of the command.
TimeoutOutcomeUnlabelled(command_id) == <<"TimeoutError", 0>>

TimeoutOutcome(command_id) == <<"TimeoutError", command_id>>

RecordReturn(command_id, pass) ==
    /\ outcomes' = IF pass.returned = <<>> THEN outcomes
                   ELSE [outcomes EXCEPT ![command_id] =
                            Append(@, ResultOutcome(pass.returned[1]))]
    /\ buffered' = IF pass.stored = <<>> THEN buffered
                   ELSE [buffered EXCEPT ![pass.stored[1].command_id] = TRUE]

\* The event loop is free to run coroutines: it is not inside stop().
LoopFree == lifecycle.pc # "stopping"

\* execute_command on a pool that is not running, or whose workers are all
\* dead: RuntimeError, nothing is sent.
ExecuteRefused ==
    \E c \in Callers :
        /\ LoopFree
        /\ calls[c].pc = "idle"
        /\ ~pool_is_running \/ alive_workers(alive) = <<>>
        /\ calls' = [calls EXCEPT ![c].pc = "raised"]
        /\ UNCHANGED <<pool_is_running, registered, lifecycle, orphans, alive,
                       worker_index, session_workers, command_queues,
                       result_queues, worker_pc, worker_command, issued, poolHist,
                       mgrVars, histVars, calcVars, wfVars, apiVars, handlerVars>>

\* execute_command from its entry to the first `await asyncio.sleep(0.1)`:
\* a fresh command id, the choice of the worker, the command put on its
\* queue, and the first pass of the polling loop.  The session id of the
\* caller is not handed to _get_next_worker.
ExecuteCommand ==
    \E c \in Callers : \E sees \in BOOLEAN : \E session_id \in SessionIds \cup {NoSession} :
        /\ LoopFree
        /\ calls[c].pc = "idle"
        /\ pool_is_running
        /\ alive_workers(alive) # <<>>
        /\ issued < MaxCommands
        /\ LET command_id == issued + 1
               chosen == get_next_worker(alive, worker_index, session_workers,
                                         NoSession)
               w == chosen.index
               call == [pc |-> "polling", command_id |-> command_id, worker |-> w,
                        unmatched |-> <<>>, expired |-> FALSE]
               pass == PollPass(call, result_queues[w], sees)
           IN /\ issued' = command_id
              /\ worker_index' = chosen.worker_index
              /\ session_workers' = chosen.session_workers
              /\ command_queues' = [command_queues EXCEPT ![w] = Append(@, command_id)]
              /\ calls' = [calls EXCEPT ![c] = pass.call]
              /\ result_queues' = [result_queues EXCEPT ![w] = pass.queue]
              /\ RecordReturn(command_id, pass)
              /\ sent_to' = [sent_to EXCEPT ![command_id] = w]
              /\ session_of' = IF "sessions" \in recording
                               THEN [session_of EXCEPT ![command_id] = session_id]
                               ELSE session_of
              /\ RecordPick(chosen, alive, session_workers, NoSession)
        /\ UNCHANGED <<pool_is_running, registered, lifecycle, orphans, alive,
                       worker_pc, worker_command, dequeued, emitted,
                       mgrVars, histVars, calcVars, wfVars, apiVars, handlerVars>>

\* The deadline of a waiting call passes.
TimeoutElapses(c) ==
    /\ calls[c].pc = "polling"
    /\ ~calls[c].expired
    /\ calls' = [calls EXCEPT ![c].expired = TRUE]
    /\ UNCHANGED <<pool_is_running, registered, lifecycle, orphans, alive,
                   worker_index, session_workers, command_queues,
                   result_queues, worker_pc, worker_command, issued, poolHist,
                   mgrVars, histVars, calcVars, wfVars, apiVars, handlerVars>>

\* `await asyncio.sleep(0.1)` at the end of every pass that does not return,
\* in milliseconds.
poll_interval_ms == 100

\* The loop that never finds its deadline passed.
DeadlineNeverPassed(call) == FALSE

\* `elapsed >= timeout` at the head of a pass.
DeadlinePassed(call) == call.expired

\* A later pass of the polling loop, from one sleep to the next or to the
\* return: past the deadline the buffered results are put back and the call
\* returns the TimeoutError result.
PollStep(c) ==
    \E sees \in BOOLEAN :
        /\ LoopFree
        /\ calls[c].pc = "polling"
        /\ LET call == calls[c]
               w == call.worker
               pass == PollPass(call, result_queues[w], sees)
           IN IF DeadlinePassed(call)
              THEN /\ result_queues' = [result_queues EXCEPT ![w] =
                                            PutBack(@, call.unmatched)]
                   /\ calls' = [calls EXCEPT ![c] =
                                   [call EXCEPT !.pc = "done", !.unmatched = <<>>]]
                   /\ outcomes' = [outcomes EXCEPT ![call.command_id] =
                                      Append(@, TimeoutOutcome(call.command_id))]
                   /\ UNCHANGED buffered
              ELSE /\ result_queues' = [result_queues EXCEPT ![w] = pass.queue]
                   /\ calls' = [calls EXCEPT ![c] = pass.call]
                   /\ RecordReturn(call.command_id, pass)
        /\ UNCHANGED <<pool_is_running, registered, lifecycle, orphans, alive,
                       worker_index, session_workers, command_queues,
                       worker_pc, worker_command, issued, dequeued, emitted,
                       sent_to, session_of, last_pick, last_round_robin,
                       mgrVars, histVars, calcVars, wfVars, apiVars, handlerVars>>

\* The caller goes on after execute_command returned or raised.
CallerResumes ==
    \E c \in Callers :
        /\ LoopFree
        /\ calls[c].pc \in {"done", "raised"}
        /\ calls' = [calls EXCEPT ![c] = NoCall]
        /\ UNCHANGED <<pool_is_running, registered, lifecycle, orphans, alive,
                       worker_index, session_workers, command_queues,
                       result_queues, worker_pc, worker_command, issued, poolHist,
                       mgrVars, histVars, calcVars, wfVars, apiVars, handlerVars>>

\* BrowserWorker.run: `command_dict = self.command_queue.get(timeout=1.0)`
WorkerGet ==
    \E w \in Workers :
        /\ alive[w]
        /\ worker_pc[w] = "get"
        /\ command_queues[w] # <<>>
        /\ Head(command_queues[w]) # Shutdown
        /\ worker_command' = [worker_command EXCEPT ![w] = Head(command_queues[w])]
        /\ command_queues' = [command_queues EXCEPT ![w] = Tail(@)]
        /\ worker_pc' = [worker_pc EXCEPT ![w] = "handling"]
        /\ dequeued' = [dequeued EXCEPT ![Head(command_queues[w])] = TRUE]
        /\ UNCHANGED <<pool_is_running, registered, lifecycle, orphans, alive,
                       worker_index, session_workers, result_queues, calls,
                       issued, outcomes, emitted, sent_to, buffered, session_of,
                       last_pick, last_round_robin,
                       mgrVars, histVars, calcVars, wfVars, apiVars, handlerVars>>

\* BrowserWorker.run: `result = await self.handle_command(command)` and
\* `self.result_queue.put(result.to_dict())`
WorkerPut ==
    \E w \in Workers :
        /\ alive[w]
        /\ worker_pc[w] = "handling"
        /\ result_queues' = [result_queues EXCEPT ![w] =
                                Append(@, Result(worker_command[w]))]
        /\ emitted' = [emitted EXCEPT ![worker_command[w]] = @ + 1]
        /\ worker_pc' = [worker_pc EXCEPT ![w] = "get"]
        /\ worker_command' = [worker_command EXCEPT ![w] = 0]
        /\ UNCHANGED <<pool_is_running, registered, lifecycle, orphans, alive,
                       worker_index, session_workers, command_queues, calls,
                       issued, outcomes, dequeued, sent_to, buffered, session_of,
                       last_pick, last_round_robin,
                       mgrVars, histVars, calcVars, wfVars, apiVars, handlerVars>>

\* BrowserWorker.run: the command taken is None; the loop ends, the browser
\* is cleaned up and the process exits.
WorkerShutdown ==
    \E w \in Workers :
        /\ alive[w]
        /\ worker_pc[w] = "get"
        /\ command_queues[w] # <<>>
        /\ Head(command_queues[w]) = Shutdown
        /\ command_queues' = [command_queues EXCEPT ![w] = Tail(@)]
        /\ alive' = [alive EXCEPT ![w] = FALSE]
        /\ UNCHANGED <<pool_is_running, registered, lifecycle, orphans,
                       worker_index, session_workers, result_queues, worker_pc,
                       worker_command, calls, issued, poolHist,
                       mgrVars, histVars, calcVars, wfVars, apiVars, handlerVars>>

\* stop() leaves a worker that outlived join(timeout=5.0) running.
NoForceTerminate(al, w) == al

\* `worker.terminate()`, `worker.join(timeout=2.0)`, `worker.kill()`
ForceTerminate(al, w) == [al EXCEPT ![w] = FALSE]

\* BrowserWorkerPool.stop, called once when the application shuts down: the
\* shutdown signal is put on every command queue.
PoolStopSignal ==
    /\ lifecycle.pc = "started"
    /\ pool_is_running
    /\ command_queues' = [w \in Workers |-> Append(command_queues[w], Shutdown)]
    /\ lifecycle' = [pc |-> "stopping", joined |-> 0]
    /\ UNCHANGED <<pool_is_running, registered, orphans, alive, worker_index,
                   session_workers, result_queues, worker_pc, worker_command,
                   calls, issued, poolHist,
                   mgrVars, histVars, calcVars, wfVars, apiVars, handlerVars>>

\* stop(): `worker.join(timeout=5.0)` returns for the next worker of the
\* list, because the process has exited or because the five seconds are
\* over; a worker still alive is terminated.
PoolStopJoin ==
    /\ lifecycle.pc = "stopping"
    /\ lifecycle.joined < NumWorkers
    /\ alive' = IF alive[lifecycle.joined]
                THEN ForceTerminate(alive, lifecycle.joined) ELSE alive
    /\ lifecycle' = [lifecycle EXCEPT !.joined = @ + 1]
    /\ UNCHANGED <<pool_is_running, registered, orphans, worker_index,
                   session_workers, command_queues, result_queues, worker_pc,
                   worker_command, calls, issued, poolHist,
                   mgrVars, histVars, calcVars, wfVars, apiVars, handlerVars>>

\* stop(): `self.cleanup()` after the last join, and the return.
PoolStopReturn ==
    /\ lifecycle.pc = "stopping"
    /\ lifecycle.joined = NumWorkers
    /\ cleanup(alive)
    /\ lifecycle' = [lifecycle EXCEPT !.pc = "stopped"]
    /\ UNCHANGED <<worker_index, session_workers, command_queues, result_queues,
                   worker_pc, worker_command, calls, issued, poolHist,
                   mgrVars, histVars, calcVars, wfVars, apiVars, handlerVars>>

\* ------------------------------------- execute_command: the effective timeout
CommandTypes == {"navigate", "fill_form", "submit_form", "detect_captcha",
                 "get_page_content", "extract_form_fields_dom", "take_screenshot",
                 "detect_submission_page", "wait_for_confirmation", "close"}

\* `timeout: Optional[float] = None`
NoTimeout == 0 - 1

TimeoutArgs == {NoTimeout} \cup {n * TimeoutStep : n \in 0..MaxTimeoutSteps}

\* `timeout or default`: None and 0 are both false
OrDefault(timeout, default) ==
    IF timeout = NoTimeout \/ timeout = 0 THEN default ELSE timeout

\* The timeout execute_command waits for, from the kind of the command and
\* the timeout its caller passed.
effective_timeout(command_type, timeout) ==
    IF command_type = "fill_form"
    THEN OrDefault(timeout, IF default_timeout > fill_form_floor
                            THEN default_timeout ELSE fill_form_floor)
    ELSE OrDefault(timeout, default_timeout)

NoTimeoutCall == [command_type |-> "none", timeout |-> NoTimeout, effective |-> NoTimeout]

EffectiveTimeout ==
    \E command_type \in CommandTypes : \E timeout \in TimeoutArgs :
        /\ timeout_call' = [command_type |-> command_type, timeout |-> timeout,
                            effective |-> effective_timeout(command_type, timeout)]
        /\ UNCHANGED <<hybrid_call, extract_call, mapping_call, classify_call>>
        /\ UNCHANGED <<mgrVars, histVars, poolVars, wfVars, apiVars, handlerVars>>

\* ================================================ BrowserWorker (handlers)
\* What a handler of BrowserWorker does about its page handle before it
\* performs its command.  `page` is "none" (self.page is None), "closed" (the
\* handle is there, the page behind it is closed) or "live"; `has_url`: a
\* current_url is remembered; `ok`: initialize_browser() and goto() succeed.
\* The handlers differ in which state of the handle they recover from:
\*   fill_form, detect_captcha, extract_form_fields_dom: both;
\*   get_page_content: a closed page; on a missing one it initializes the
\*     browser and returns the content of the fresh, blank page;
\*   detect_submission_page, submit_form: a missing page only;
\*   take_screenshot, wait_for_confirmation: none;
\*   navigate reinitializes and goes to the URL of the command; close uses
\*   no page.
handle_page(command_type, page, has_url, ok) ==
    LET recovers ==
            CASE command_type \in {"fill_form", "detect_captcha",
                                   "extract_form_fields_dom"} -> {"none", "closed"}
              [] command_type = "get_page_content" -> {"closed"}
              [] command_type \in {"detect_submission_page", "submit_form"} -> {"none"}
              [] OTHER -> {}
        performed == [page |-> "live", has_url |-> has_url, result |-> "performed",
                      renavigated |-> FALSE]
        failed == [page |-> page, has_url |-> has_url, result |-> "error",
                   renavigated |-> FALSE]
    IN CASE command_type = "close" -> [performed EXCEPT !.page = "none"]
         [] command_type = "navigate" ->
                IF ok THEN [performed EXCEPT !.has_url = TRUE] ELSE failed
         [] page = "live" -> IF ok THEN performed ELSE failed
         [] page \in recovers ->
                IF ok THEN [performed EXCEPT !.renavigated = has_url] ELSE failed
         [] command_type = "get_page_content" /\ page = "none" ->
                IF ok THEN performed ELSE failed
         [] OTHER -> failed

NoSessionYet == [page |-> "none", has_url |-> FALSE,
                 last |-> [command_type |-> "none", page |-> "none",
                           has_url |-> FALSE, ok |-> FALSE, result |-> "none",
                           renavigated |-> FALSE]]

\* BrowserWorker.handle_command for one command.
HandleCommand ==
    \E command_type \in CommandTypes : \E ok \in BOOLEAN :
        LET answer == handle_page(command_type, worker_session.page,
                                  worker_session.has_url, ok)
        IN /\ worker_session' =
                 [page |-> answer.page, has_url |-> answer.has_url,
                  last |-> [command_type |-> command_type,
                            page |-> worker_session.page,
                            has_url |-> worker_session.has_url, ok |-> ok,
                            result |-> answer.result,
                            renavigated |-> answer.renavigated]]
           /\ UNCHANGED <<mgrVars, histVars, poolVars, calcVars, wfVars, apiVars>>

\* The page of the worker is closed under it (a crash, a closed window).
PageCloses ==
    /\ worker_session.page = "live"
    /\ worker_session' = [worker_session EXCEPT !.page = "closed"]
    /\ UNCHANGED <<mgrVars, histVars, poolVars, calcVars, wfVars, apiVars>>

\* ============================================ SubmissionWorkflow (pipeline)
\* submit_to_directory runs its stages one after the other; each action below
\* is one stage with what the browser or the form reader answers.  An
\* exception raised by a stage is caught by the `except Exception` of the
\* method, which prepares the error result; the `finally` then closes the
\* browser, and an exception raised by close() leaves the method in place of
\* the result.
StageOrder == <<"navigate", "locate", "captcha", "analyze", "map", "fill",
                "submit", "confirm">>

\* ---------------------------------------------------------- form analysis
\* Fields are known by their selectors.  The DOM of a page holds some of the
\* selectors 1..MaxFields; the model may name these and one selector more
\* that is on no page.
DomFieldSets == SUBSET (1..MaxFields)
LlmFieldSets == SUBSET (1..(MaxFields + 1))

\* What the model answers to the chat call: the call raises, the text is no
\* JSON of the expected shape ("unparseable", the empty text included), or
\* it is such JSON, `fields` being its fields that carry a selector.  For an
\* answer that is no such JSON `fields` is what a reader that does not check
\* would take from it.
LlmAnswers == [kind : {"raises", "unparseable", "json"}, fields : LlmFieldSets]

\* FormReader.analyze_form that takes the fields without a check.
analyze_form_unchecked(client, answer) == [fields |-> answer.fields, error |-> FALSE]

\* FormReader.analyze_form: an error structure without fields when there is
\* no client, when the call raises or when its answer cannot be parsed.
analyze_form(client, answer) ==
    IF ~client \/ answer.kind # "json"
    THEN [fields |-> {}, error |-> TRUE]
    ELSE [fields |-> answer.fields, error |-> FALSE]

\* FormReader.analyze_form_hybrid: the DOM extraction first (`dom_ok`: it
\* does not raise); the model is asked for a complex form only, and its
\* answer changes purposes and the submit button, never the list of fields.
analyze_form_hybrid(client, answer, dom_ok, dom, use_llm, is_complex) ==
    LET dom_result == IF dom_ok THEN dom ELSE {}
        asked == /\ dom_result # {}
                 /\ use_llm /\ client
                 /\ is_complex
        llm_result == analyze_form(client, answer)
    IN [fields |-> dom_result,
        method |-> IF asked /\ ~llm_result.error THEN "merged" ELSE "dom"]

\* What the model had to give when an analysis ran.
llm_gave(form_reader, client, answer) ==
    IF ~form_reader THEN "no_reader"
    ELSE IF ~client THEN "no_client"
    ELSE IF answer.kind # "json" THEN answer.kind
    ELSE IF answer.fields = {} THEN "empty"
    ELSE "fields"

\* What is kept of an analysis: what the model had to give, the fields of
\* the DOM extraction, and the fields and the method of the structure
\* returned.
NoAnalysis == [llm |-> "none", dom |-> {}, fields |-> {}, method |-> "none"]

AnalyzeFormHybrid ==
    \E client, dom_ok, use_llm, is_complex \in BOOLEAN :
    \E answer \in LlmAnswers : \E dom \in DomFieldSets :
        LET result == analyze_form_hybrid(client, answer, dom_ok, dom, use_llm,
                                          is_complex)
        IN /\ hybrid_call' = [llm |-> llm_gave(TRUE, client, answer),
                              dom |-> IF dom_ok THEN dom ELSE {},
                              fields |-> result.fields, method |-> result.method]
           /\ UNCHANGED <<mgrVars, histVars, poolVars, timeout_call, extract_call,
                          mapping_call, classify_call, wfVars, apiVars, handlerVars>>

\* ------------------------------------------------------- DOM extraction
\* The elements that `querySelectorAll('input, textarea, select')` finds in
\* the main form, in document order, each with its `type` property as the
\* browser reports it (lower case; "textarea" for a textarea).
ElementKinds == {"text", "hidden", "submit", "textarea"}
Forms == UNION {[1..n -> ElementKinds] : n \in 0..MaxElements}

\* The field pushed for the element at `index`; its selector is modelled by
\* the index of the element.
Field(elements, index) == [selector |-> index, type |-> elements[index]]

\* The script of the extractors without its test of the type.
ScriptFieldsUnfiltered(elements) ==
    {Field(elements, index) : index \in DOMAIN elements}

\* The forEach of the extraction script, the same text in both extractors:
\* `if (el.type === 'hidden') return;` before anything is pushed.
ScriptFields(elements) ==
    {Field(elements, index) :
         index \in {i \in DOMAIN elements : elements[i] # "hidden"}}

\* The first two selectors that the script tries for the submit button.
SubmitSelectorFound(elements, submit_button) ==
    submit_button \/ \E i \in DOMAIN elements : elements[i] = "submit"

\* BrowserAutomation.extract_form_fields_dom.  `raises`: page.evaluate or a
\* wait before it raises.  The third selector of the script,
\* button:contains("Submit"), is no selector of CSS: querySelector throws on
\* it, which the script reaches when the first two selectors found nothing.
\* Every exception ends in the structure without fields.
extract_form_fields_dom(elements, submit_button, raises) ==
    IF raises \/ ~SubmitSelectorFound(elements, submit_button)
    THEN [fields |-> {}, error |-> TRUE]
    ELSE [fields |-> ScriptFields(elements), error |-> FALSE]

\* BrowserWorker._handle_extract_form_fields_dom, on an open page: its
\* script tries the first two selectors only; an exception of the script
\* leaves the handler and handle_command answers with an error result.
handle_extract_form_fields_dom(elements, raises) ==
    IF raises
    THEN [fields |-> {}, error |-> TRUE]
    ELSE [fields |-> ScriptFields(elements), error |-> FALSE]

NoExtraction == [mode |-> "none", elements |-> <<>>, fields |-> {}, error |-> FALSE]

ExtractDirect ==
    \E elements \in Forms : \E submit_button, raises \in BOOLEAN :
        LET result == extract_form_fields_dom(elements, submit_button, raises)
        IN /\ extract_call' = [mode |-> "direct", elements |-> elements,
                               fields |-> result.fields, error |-> result.error]
           /\ UNCHANGED <<mgrVars, histVars, poolVars, timeout_call, hybrid_call,
                          mapping_call, classify_call, wfVars, apiVars, handlerVars>>

ExtractWorker ==
    \E elements \in Forms : \E raises \in BOOLEAN :
        LET result == handle_extract_form_fields_dom(elements, raises)
        IN /\ extract_call' = [mode |-> "worker", elements |-> elements,
                               fields |-> result.fields, error |-> result.error]
           /\ UNCHANGED <<mgrVars, histVars, poolVars, timeout_call, hybrid_call,
                          mapping_call, classify_call, wfVars, apiVars, handlerVars>>

\* ---------------------------------------------------- DOM-based mapping
\* The purposes in the order in which the mapping loop tests them; the
\* product attribute of a purpose is named by the purpose (email stands for
\* contact_email, logo for logo_path).
PurposeOrder == <<"name", "url", "email", "description", "category", "logo">>
Purposes == {PurposeOrder[i] : i \in DOMAIN PurposeOrder}

\* The attributes that a product has a value for: name, url and contact
\* email always, the others when they are not empty.
Products == {{"name", "url", "email"} \cup s :
                 s \in SUBSET {"description", "category", "logo"}}

\* A field of the form structure: its purpose tag, and the purposes one of
\* whose keywords occurs in its name, label or placeholder (at most one here).
MappedFields == [purpose : Purposes \cup {"other"},
                 keywords : {{}} \cup {{p} : p \in Purposes}]
MappedForms == UNION {[1..n -> MappedFields] : n \in 0..MaxMapFields}

\* The test of the loop for one purpose:
\* `purpose == p or any(kw in field_name for kw in [...])`, then the value.
Applies(field, p, saas_data) ==
    /\ field.purpose = p \/ p \in field.keywords
    /\ p \in saas_data

\* The value that the loop gives to one field: that of the first purpose in
\* the order whose test succeeds, "none" when no test does.
RECURSIVE FirstApplying(_, _, _)
FirstApplying(field, i, saas_data) ==
    IF i > Len(PurposeOrder) THEN "none"
    ELSE IF Applies(field, PurposeOrder[i], saas_data) THEN PurposeOrder[i]
    ELSE FirstApplying(field, i + 1, saas_data)

\* mapped_data of the DOM-based mapping, by the index of the field.
mapped_data(fields, saas_data) ==
    [i \in DOMAIN fields |-> FirstApplying(fields[i], 1, saas_data)]

NoMapping == [fields |-> <<>>, saas_data |-> {}, mapped |-> <<>>]

\* One mapping is followed in a behaviour.
MapFields ==
    /\ mapping_call = NoMapping
    /\ \E fields \in MappedForms : \E saas_data \in Products :
        /\ mapping_call' = [fields |-> fields, saas_data |-> saas_data,
                            mapped |-> mapped_data(fields, saas_data)]
        /\ UNCHANGED <<mgrVars, histVars, poolVars, timeout_call, hybrid_call,
                       extract_call, classify_call, wfVars, apiVars, handlerVars>>

\* ------------------------------------------------------ field classifier
\* The keys of PURPOSE_KEYWORDS in the order of the table, which is the order
\* in which a dict is iterated.
PURPOSE_KEYWORDS == <<"name", "url", "email", "description", "category", "logo">>

\* A field text is taken by what the classifier computes from it: for every
\* purpose the number of matches of the patterns of the purpose.
Scores == [DOMAIN PURPOSE_KEYWORDS -> 0..MaxScore]
FieldTypes == {"", "text", "email", "url", "file"}

\* max(scores.values())
MaxOf(scores) ==
    CHOOSE m \in 0..MaxScore :
        /\ \E i \in DOMAIN scores : scores[i] = m
        /\ \A i \in DOMAIN scores : scores[i] <= m

\* max(scores, key=scores.get): the first key, in the order of iteration,
\* whose score is the highest.
BestPurpose(scores) ==
    PURPOSE_KEYWORDS[CHOOSE i \in DOMAIN scores :
                         /\ scores[i] = MaxOf(scores)
                         /\ \A j \in 1..(i - 1) : scores[j] # MaxOf(scores)]

\* The scoring of classify without the shortcuts by the type.
classify_by_score(scores, field_type) ==
    IF MaxOf(scores) > 0 THEN BestPurpose(scores) ELSE "other"

\* FieldPurposeClassifier.classify
classify(scores, field_type) ==
    IF field_type = "email" THEN "email"
    ELSE IF field_type = "url" THEN "url"
    ELSE IF field_type = "file" THEN "logo"
    ELSE IF MaxOf(scores) > 0 THEN BestPurpose(scores)
    ELSE "other"

NoClassification == [scores |-> <<>>, field_type |-> "none", purpose |-> "none",
                     again |-> "none"]

\* One call of classify ...
Classify ==
    /\ classify_call = NoClassification
    /\ \E scores \in Scores : \E field_type \in FieldTypes :
        /\ classify_call' = [scores |-> scores, field_type |-> field_type,
                             purpose |-> classify(scores, field_type),
                             again |-> "none"]
        /\ UNCHANGED <<mgrVars, histVars, poolVars, timeout_call, hybrid_call,
                       extract_call, mapping_call, wfVars, apiVars, handlerVars>>

\* ... and a second call with the same text and type.
ClassifyAgain ==
    /\ classify_call.purpose # "none"
    /\ classify_call.again = "none"
    /\ classify_call' = [classify_call EXCEPT
                             !.again = classify(classify_call.scores,
                                                classify_call.field_type)]
    /\ UNCHANGED <<mgrVars, histVars, poolVars, timeout_call, hybrid_call,
                   extract_call, mapping_call, wfVars, apiVars, handlerVars>>

\* BrowserAutomation.close() releases the page, the browser and the driver in
\* this order.
CloseOrder == <<"page", "browser", "playwright">>

\* What BrowserAutomation.start() has acquired when it stops after 0..3 of its
\* steps: the driver first, then the browser, then the page.
Acquired(steps) == {CloseOrder[i] : i \in (4 - steps)..3}

\* What is still held after close() of a session holding `open`, when the
\* release of `raising` raises ("none": no release raises): the awaits of
\* close() follow each other unguarded, so nothing after the raising one runs.
close(open, raising) ==
    IF raising = "none" THEN {}
    ELSE {CloseOrder[i] : i \in {j \in 1..3 : /\ CloseOrder[j] \in open
                                            /\ \E k \in 1..j : CloseOrder[k] = raising}}

NoRun == [pc |-> "idle", executed |-> <<>>, failures |-> {}, result |-> "none",
          confirmation |-> "none", screenshot_path |-> FALSE,
          captcha_found |-> FALSE, open |-> {}, triggered |-> "none",
          analysis |-> NoAnalysis]

\* The stage has been executed and the run goes on with `pc`.
Proceeds(wf, stage, pc) ==
    [wf EXCEPT !.executed = Append(@, stage), !.pc = pc]

\* The stage has failed and the run goes on all the same.
FailedProceeds(wf, stage, result) ==
    [wf EXCEPT !.executed = Append(@, stage), !.failures = @ \cup {stage}]

\* The stage has been executed and ends the run with `result`: a `return` of
\* the method, or the error result of its `except Exception` block.
Failed(wf, stage, result) ==
    [wf EXCEPT !.executed = Append(@, stage), !.failures = @ \cup {stage},
               !.result = result, !.pc = "close"]

WfStart ==
    \E screenshot_path \in BOOLEAN :
        /\ workflow.pc \in {"idle", "returned", "raised"}
        /\ workflow' = [NoRun EXCEPT !.pc = "navigate",
                                     !.screenshot_path = screenshot_path]
        /\ UNCHANGED <<mgrVars, histVars, poolVars, calcVars, apiVars, handlerVars>>

\* navigate() starts the browser session, then loads the page; start() or
\* goto() may raise, leaving what start() had acquired until then.
Navigate ==
    \E raises \in BOOLEAN : \E steps \in 0..3 :
        /\ workflow.pc = "navigate"
        /\ raises \/ steps = 3
        /\ workflow' = [(IF raises THEN Failed(workflow, "navigate", "error")
                         ELSE Proceeds(workflow, "navigate", "locate"))
                           EXCEPT !.open = Acquired(steps)]
        /\ UNCHANGED <<mgrVars, histVars, poolVars, calcVars, apiVars, handlerVars>>

\* detect_submission_page: undetected or raising, the run proceeds anyway.
LocateSubmissionForm ==
    \E answer \in {"detected", "undetected", "raises"} :
        /\ workflow.pc = "locate"
        /\ workflow' =
              [Proceeds(workflow, "locate", "captcha") EXCEPT
                  !.failures = IF answer = "detected" THEN @ ELSE @ \cup {"locate"}]
        /\ UNCHANGED <<mgrVars, histVars, poolVars, calcVars, apiVars, handlerVars>>

CaptchaCheck ==
    \E answer \in {"found", "clear", "raises"} :
        /\ workflow.pc = "captcha"
        /\ workflow' =
              CASE answer = "found" ->
                      [Failed(workflow, "captcha", "captcha_required") EXCEPT
                          !.captcha_found = TRUE]
                [] answer = "clear" -> Proceeds(workflow, "captcha", "analyze")
                [] answer = "raises" -> Failed(workflow, "captcha", "error")
        /\ UNCHANGED <<mgrVars, histVars, poolVars, calcVars, apiVars, handlerVars>>

\* Steps 4: the page content, the analysis by the form reader or the DOM, and
\* the second DOM extraction when no field was found.
\* `form_reader`: the FormReader could be constructed; `retry`: the fields
\* the second DOM extraction finds, three seconds later, when there was none.
AnalyzeForm ==
    \E raises, form_reader, client \in BOOLEAN :
    \E answer \in LlmAnswers : \E dom \in DomFieldSets : \E retry \in DomFieldSets :
        /\ workflow.pc = "analyze"
        /\ workflow' =
              LET ai == analyze_form(client, answer)
                  using_dom_extraction == ~form_reader \/ ai.error \/ ai.fields = {}
                  form_structure == IF using_dom_extraction THEN dom ELSE ai.fields
                  fields == IF form_structure = {} THEN retry ELSE form_structure
                  analysis == [llm |-> llm_gave(form_reader, client, answer),
                               dom |-> dom, fields |-> fields,
                               method |-> IF using_dom_extraction \/ form_structure = {}
                                          THEN "dom" ELSE "ai"]
              IN IF raises THEN Failed(workflow, "analyze", "error")
                 ELSE [(IF fields # {}
                        THEN Proceeds(workflow, "analyze", "map")
                        ELSE Failed(workflow, "analyze", "error"))
                          EXCEPT !.analysis = analysis]
        /\ UNCHANGED <<mgrVars, histVars, poolVars, calcVars, apiVars, handlerVars>>

MapData ==
    \E answer \in {"mapped", "empty", "raises"} :
        /\ workflow.pc = "map"
        /\ workflow' = IF answer = "mapped"
                       THEN Proceeds(workflow, "map", "fill")
                       ELSE Failed(workflow, "map", "error")
        /\ UNCHANGED <<mgrVars, histVars, poolVars, calcVars, apiVars, handlerVars>>

FillForm ==
    \E answer \in {"filled", "none_filled", "raises"} :
        /\ workflow.pc = "fill"
        /\ workflow' = IF answer = "filled"
                       THEN Proceeds(workflow, "fill", "submit")
                       ELSE Failed(workflow, "fill", "error")
        /\ UNCHANGED <<mgrVars, histVars, poolVars, calcVars, apiVars, handlerVars>>

\* BrowserAutomation.submit_form: the click on the given selector, then the
\* common submit-button patterns, then `document.querySelector('form')?.submit()`,
\* which raises nothing on a page without a form.  `submitted` is set by the
\* paths and read by no one: the method returns True unless an exception
\* reaches its outer handler (the page is gone at its first wait).
submit_form(explicit, pattern, form, page_gone) ==
    LET triggered == CASE explicit -> "selector"
                       [] pattern -> "pattern"
                       [] form -> "form"
                       [] OTHER -> "none"
    IN IF page_gone THEN [triggered |-> "none", returns |-> FALSE]
       ELSE [triggered |-> triggered, returns |-> TRUE]

\* Step 7: `submitted = await self.browser.submit_form(selector)`; the lookup
\* of the selector in the form structure may raise.
SubmitForm ==
    \E raises, explicit, pattern, form, page_gone \in BOOLEAN :
        /\ workflow.pc = "submit"
        /\ workflow' =
              LET answer == submit_form(explicit, pattern, form, page_gone)
              IN IF raises THEN Failed(workflow, "submit", "error")
                 ELSE [(IF answer.returns
                        THEN Proceeds(workflow, "submit", "confirm")
                        ELSE Failed(workflow, "submit", "error"))
                          EXCEPT !.triggered = answer.triggered]
        /\ UNCHANGED <<mgrVars, histVars, poolVars, calcVars, apiVars, handlerVars>>

\* wait_for_confirmation answers with a status and raises nothing; without a
\* screenshot path its status is the status of the result.
Confirm ==
    \E status \in {"success", "error", "pending", "unknown"} :
        /\ workflow.pc = "confirm"
        /\ workflow' =
              LET done == [Proceeds(workflow, "confirm", "close") EXCEPT
                              !.confirmation = status,
                              !.failures = IF status \in {"error", "unknown"}
                                           THEN @ \cup {"confirm"} ELSE @]
              IN IF workflow.screenshot_path
                 THEN [done EXCEPT !.pc = "screenshot"]
                 ELSE [done EXCEPT !.result = status]
        /\ UNCHANGED <<mgrVars, histVars, poolVars, calcVars, apiVars, handlerVars>>

\* Step 9: take_screenshot(screenshot_path); when it raises, the error result
\* of the `except Exception` block is what the run returns.
Screenshot ==
    \E raises \in BOOLEAN :
        /\ workflow.pc = "screenshot"
        /\ workflow' = [workflow EXCEPT
                           !.result = IF raises THEN "error" ELSE workflow.confirmation,
                           !.pc = "close"]
        /\ UNCHANGED <<mgrVars, histVars, poolVars, calcVars, apiVars, handlerVars>>

\* `finally: await self.browser.close()`
Close ==
    \E raising \in {"none"} \cup workflow.open :
        /\ workflow.pc = "close"
        /\ workflow' = [workflow EXCEPT
                           !.pc = IF raising = "none" THEN "returned" ELSE "raised",
                           !.open = close(@, raising)]
        /\ UNCHANGED <<mgrVars, histVars, poolVars, calcVars, apiVars, handlerVars>>

\* --------------------------------------------------------- specifications
SchedulerStep ==
    \/ Start
    \/ LoopTurn
    \/ SchedulerCycle
    \/ TaskStartTracked
    \/ TaskFinishTracked
    \/ TaskStartDetached
    \/ TaskFinishDetached
    \/ CleanupTask
    \/ CooldownElapses

ShutdownStep ==
    \/ StopBegin
    \/ StopGather
    \/ StopReturn

OperatorStep ==
    \/ TriggerProcessing
    \/ ProcessAllRequest
    \/ ProcessAllStep
    \/ StopAutoRetry
    \/ RetrySubmission

PoolStep ==
    \/ PoolStart
    \/ WorkerDies
    \/ ExecuteRefused
    \/ ExecuteCommand
    \/ \E c \in Callers : TimeoutElapses(c)
    \/ \E c \in Callers : PollStep(c)
    \/ CallerResumes
    \/ WorkerGet
    \/ WorkerPut

PoolStopStep ==
    \/ PoolStopSignal
    \/ PoolStopJoin
    \/ PoolStopReturn
    \/ WorkerShutdown

SelectionStep ==
    \/ PoolStart
    \/ WorkerDies
    \/ GetNextWorker

ProcessStep ==
    \/ SchedulerStep
    \/ StopAutoRetry
    \/ ProcessSubmission
    \/ ProcessWorkflow

HandlerStep ==
    \/ HandleCommand
    \/ PageCloses

AnalysisStep ==
    \/ AnalyzeFormHybrid
    \/ WfStart
    \/ Navigate
    \/ LocateSubmissionForm
    \/ CaptchaCheck
    \/ AnalyzeForm

PipelineStep ==
    \/ WfStart
    \/ Navigate
    \/ LocateSubmissionForm
    \/ CaptchaCheck
    \/ AnalyzeForm
    \/ MapData
    \/ FillForm
    \/ SubmitForm
    \/ Confirm
    \/ Screenshot
    \/ Close

\* The manager and the pool as constructed; which history is kept is a
\* choice of the specification.
InitEngine ==
    /\ InitManager
    /\ InitPool
    /\ timeout_call = NoTimeoutCall
    /\ hybrid_call = NoAnalysis
    /\ extract_call = NoExtraction
    /\ mapping_call = NoMapping
    /\ classify_call = NoClassification
    /\ workflow = NoRun
    /\ background_tasks = [s \in Ids |-> 0]
    /\ worker_session = NoSessionYet

Init == InitEngine /\ recording = {} /\ max_retries = WORKFLOW_MAX_RETRIES
InitFails == InitEngine /\ recording = {"fails"} /\ max_retries = WORKFLOW_MAX_RETRIES
InitCaptcha == InitEngine /\ recording = {"captcha"} /\ max_retries = WORKFLOW_MAX_RETRIES
InitRequests == InitEngine /\ recording = {"requests"} /\ max_retries = WORKFLOW_MAX_RETRIES
InitSessions == InitEngine /\ recording = {"sessions"} /\ max_retries = WORKFLOW_MAX_RETRIES
InitPicks == InitEngine /\ recording = {"picks"} /\ max_retries = WORKFLOW_MAX_RETRIES
\* A manager constructed with the default max_retries or with one above the
\* ceiling of the stop counter.
InitCeiling ==
    /\ InitEngine
    /\ recording = {"requests"}
    /\ max_retries \in {WORKFLOW_MAX_RETRIES, RaisedMaxRetries}
InitWrites == InitEngine /\ recording = {"writes"} /\ max_retries = WORKFLOW_MAX_RETRIES
InitRuns == InitEngine /\ recording = {"runs"} /\ max_retries = WORKFLOW_MAX_RETRIES

\* The manager driven by its scheduler alone, from start() to stop().
NextSched == SchedulerStep \/ ShutdownStep

SchedSpec == Init /\ [][NextSched]_vars

\* The same, keeping the count of failed pipeline runs.
SchedFailsSpec == InitFails /\ [][NextSched]_vars

\* The same, keeping what the processing tasks wrote: the percents of the
\* progress entries and the latest update of a row.
SchedWritesSpec == InitWrites /\ [][NextSched]_vars

\* The same, keeping which submissions met a CAPTCHA.
SchedCaptchaSpec == InitCaptcha /\ [][NextSched]_vars

\* The running manager driven by its scheduler and by operator requests.
Next == SchedulerStep \/ OperatorStep

Spec == Init /\ [][Next]_vars

\* The scheduler and the two retry-control requests, keeping the latest request.
NextRetryControl == SchedulerStep \/ StopAutoRetry \/ RetrySubmission

RequestsSpec == InitRequests /\ [][NextRetryControl]_vars

\* The same for a manager of either max_retries.
CeilingSpec == InitCeiling /\ [][NextRetryControl]_vars

\* The scheduler and the requests to retry the failed submissions, keeping
\* the number of pipeline runs of every submission.
RetryFailedStep == SchedulerStep \/ RetryFailedSubmissions

RetryFailedSpec == InitRuns /\ [][RetryFailedStep]_vars

\* The scheduler, the requests to stop the retries of a submission and the
\* requests to process one submission.
ProcessSpec == Init /\ [][ProcessStep]_vars

\* The analysis of forms: the pipeline up to its analysis step, and calls of
\* the hybrid analysis.
AnalysisSpec == Init /\ [][AnalysisStep]_vars

\* Extractions of the fields of a form, by the pipeline's browser and by a
\* worker.
ExtractStep ==
    \/ ExtractDirect
    \/ ExtractWorker

ExtractSpec == Init /\ [][ExtractStep]_vars

\* The DOM-based mapping of a product to the fields of a form.
MappingSpec == Init /\ [][MapFields]_vars

\* Calls of the field classifier.
ClassifyStep ==
    \/ Classify
    \/ ClassifyAgain

ClassifySpec == Init /\ [][ClassifyStep]_vars

\* One browser worker handling commands of every kind.
HandlerSpec == Init /\ [][HandlerStep]_vars

\* The worker pool and its callers.  A waiting call goes through its loop
\* every 0.1 s and its deadline passes after a finite time.
PoolFairness ==
    \A c \in Callers : WF_vars(TimeoutElapses(c)) /\ WF_vars(PollStep(c))

PoolSpec == Init /\ [][PoolStep]_vars /\ PoolFairness
\* The pool from start() to the return of stop().  The joins of stop() are
\* bounded, so stop() goes on to its end.
NextPoolLife == PoolStep \/ PoolStopStep

PoolLifeSpec == Init /\ [][NextPoolLife]_vars

\* The pool and its callers, keeping the session id of every command.
PoolSessionsSpec == InitSessions /\ [][PoolStep]_vars

\* The selection of workers on its own, keeping the selections made.
SelectionSpec == InitPicks /\ [][SelectionStep]_vars

\* The computation of the effective timeout, over all kinds and timeouts.
TimeoutSpec == Init /\ [][EffectiveTimeout]_vars

\* Runs of the submission pipeline.
PipelineSpec == Init /\ [][PipelineStep]_vars

\* ------------------------------------------------------------------ claims
\* The number of pipelines running for a submission.
Running(s) ==
    (IF processing_tasks[s].phase = "run" THEN 1 ELSE 0)
    + BagCardinality([o \in {x \in BagToSet(detached) : x.sid = s /\ x.phase = "run"}
                         |-> CopiesIn(o, detached)])

\* C1: for every submission id there is at most one live (unfinished)
\* processing task at every moment, under every interleaving of polls,
\* auto-retry passes, task completions and done-callbacks.
C1_OneLiveTaskPerId == \A s \in Ids : LiveTasks(s) <= 1

\* C2: the number of live processing tasks never exceeds max_concurrent,
\* whatever polls, auto-retry passes and operator-triggered processing occur.
C2_LiveTasksWithinMaxConcurrent == TotalLive <= max_concurrent

\* A step in which a pipeline run begins for s / in which s goes back to pending.
PipelineStarts(s) == Running(s)' > Running(s)
Requeued(s) == db[s].status # "pending" /\ db'[s].status = "pending"

PermanentlyFailed(row) == row.status = "failed" /\ row.retry_count >= max_retries

\* C3: once three pipeline runs of a submission have failed, no further
\* scheduling attempt executes its pipeline.
C3_NoRunAfterThreeFailures ==
    [][\A s \in Ids : fails[s] >= max_retries => ~PipelineStarts(s)]_vars

\* C4: a submission that is failed with retry_count >= max_retries keeps its
\* status and its retry_count under every scheduler action.
C4_PermanentFailureIsFinal ==
    [][\A s \in Ids : PermanentlyFailed(db[s]) =>
            /\ db'[s].status = db[s].status
            /\ db'[s].retry_count = db[s].retry_count]_vars

\* C5: once a pipeline run of a submission ended captcha_required, the
\* scheduler neither requeues the submission nor runs its pipeline again.
C5_CaptchaNeverRetried ==
    [][\A s \in Ids : captcha[s] => ~Requeued(s) /\ ~PipelineStarts(s)]_vars

\* C6: retry_count never decreases.
C6_RetryCountNeverDecreases ==
    [][\A s \in Ids : db'[s].retry_count >= db[s].retry_count]_vars

\* C7: while a submission is not permanently failed, its retry_count is at
\* most max_retries.
C7_RetryCountWithinMax ==
    \A s \in Ids : ~PermanentlyFailed(db[s]) => db[s].retry_count <= max_retries

\* C8: after stop_auto_retry(s), and as long as no further operator request
\* is made, the scheduler neither requeues s nor runs its pipeline.
C8_StoppedStaysStopped ==
    [][\A s \in Ids :
        (last_request = <<"stop_auto_retry", s>> /\ last_request' = last_request)
            => ~Requeued(s) /\ ~PipelineStarts(s)]_vars

\* C9: when stop() has returned, no processing task is live.
C9_NoLiveTaskAfterStop == stop_pc = "stopped" => TotalLive = 0

\* The results carrying id k that sit on a result queue or in the buffer of
\* a waiting call.
Copies(seq, k) == Cardinality({i \in 1..Len(seq) : seq[i].command_id = k})

RECURSIVE SumOver(_, _)
SumOver(f, S) ==
    IF S = {} THEN 0
    ELSE LET x == CHOOSE y \in S : TRUE IN f[x] + SumOver(f, S \ {x})

Pending(k) ==
    SumOver([w \in Workers |-> Copies(result_queues[w], k)], Workers)
    + SumOver([c \in Callers |-> Copies(calls[c].unmatched, k)], Callers)

BeingHandled(k) == \E w \in Workers : worker_command[w] = k

C10_OneOutcome ==
    \A k \in CommandIds :
        \* the caller gets at most one outcome, the result with the id of its
        \* command or the timeout error of its command
        /\ Len(outcomes[k]) <= 1
        /\ \A i \in 1..Len(outcomes[k]) :
              outcomes[k][i] \in {ResultOutcome(Result(k)), TimeoutOutcome(k)}
        \* a call that has returned has its outcome
        /\ \A c \in Callers :
              (calls[c].pc = "done" /\ calls[c].command_id = k) => Len(outcomes[k]) = 1
        \* the result returned is the only one there is
        /\ outcomes[k] = <<ResultOutcome(Result(k))>> => emitted[k] = 1 /\ Pending(k) = 0
        \* a worker sends one result for a command it dequeued, once
        /\ emitted[k] <= 1
        /\ emitted[k] = 1 => dequeued[k]
        /\ (dequeued[k] /\ ~BeingHandled(k)) => emitted[k] = 1

\* C10: every dispatched command yields exactly one outcome for its caller,
\* the result carrying the command's id or the timeout error, never both and
\* never a result with another id, and it does yield one; a worker sends
\* exactly one result for each command it dequeued.
C10_ExactlyOneOutcome ==
    /\ []C10_OneOutcome
    /\ \A k \in CommandIds : (issued >= k) ~> (Len(outcomes[k]) = 1)

\* One command got its result, another timed out although its result was
\* sent, and a waiting call holds a result that is not its own.
C10_Witness ==
    \E k1, k2 \in CommandIds :
        /\ outcomes[k1] = <<ResultOutcome(Result(k1))>>
        /\ outcomes[k2] = <<TimeoutOutcome(k2)>>
        /\ emitted[k2] = 1
        /\ \E c \in Callers : calls[c].pc = "polling" /\ calls[c].unmatched # <<>>

C11_Conserved ==
    \A k \in CommandIds :
        \* every result sent is on a queue, in a buffer, or with its owner
        /\ emitted[k] = Pending(k)
                        + (IF outcomes[k] = <<ResultOutcome(Result(k))>> THEN 1 ELSE 0)
        \* on no other queue than the one of the worker that produced it
        /\ \A w \in Workers : Copies(result_queues[w], k) > 0 => sent_to[k] = w
        \* in no other buffer than the one of a call waiting on that queue
        /\ \A c \in Callers :
              Copies(calls[c].unmatched, k) > 0 =>
                  /\ calls[c].pc = "polling"
                  /\ calls[c].worker = sent_to[k]
                  /\ calls[c].command_id # k

C12_SessionAffinity ==
    [][\A k \in CommandIds :
          (issued = k - 1 /\ issued' = k /\ session_of'[k] # NoSession) =>
              \A j \in 1..(k - 1) :
                  (/\ session_of[j] = session_of'[k]
                   /\ \A i \in (j + 1)..(k - 1) : session_of[i] # session_of'[k]
                   /\ alive[sent_to[j]])
                      => sent_to'[k] = sent_to[j]]_vars

\* The alive worker that follows w in the cyclic order of the indices.
NextAlive(al, w) ==
    LET after == {v \in Workers : al[v] /\ v > w}
        all == {v \in Workers : al[v]}
        from == IF after # {} THEN after ELSE all
    IN CHOOSE v \in from : \A u \in from : v <= u

\* C13: while a worker is alive, a selection returns a worker alive at that
\* moment; a session with a live assignment gets its worker again, every
\* other selection goes round-robin over the alive workers, and a session
\* whose worker has died is assigned the alive worker selected.
C13_SelectsAliveRoundRobin ==
    [][(last_pick'.n > last_pick.n /\ \E w \in Workers : alive[w]) =>
          LET p == last_pick' IN
          /\ p.index \in Workers
          /\ alive[p.index]
          /\ ~p.round_robin => session_workers[p.session_id] = p.index
          /\ (/\ p.round_robin
              /\ last_round_robin.index # NoWorker
              /\ last_round_robin.alive = {w \in Workers : alive[w]})
                 => p.index = NextAlive(alive, last_round_robin.index)
          /\ p.session_id # NoSession => session_workers'[p.session_id] = p.index]_vars

\* A session whose worker had died has been given a worker that is alive.
C13_Witness ==
    /\ last_pick.reassigned
    /\ last_pick.index \in Workers
    /\ alive[last_pick.index]
    /\ session_workers[last_pick.session_id] = last_pick.index

\* C14: a call of execute_command made while the pool is not running or
\* while every worker is dead raises at once: it never waits, no command id
\* is used and nothing is put on a command queue.
C14_FailsFast ==
    [][\A c \in Callers :
          (/\ calls[c].pc = "idle"
           /\ calls'[c].pc # "idle"
           /\ ~pool_is_running \/ \A w \in Workers : ~alive[w])
              => /\ calls'[c].pc = "raised"
                 /\ command_queues' = command_queues
                 /\ issued' = issued]_vars

\* A call has raised on a running pool whose workers are all dead.
C14_Witness ==
    /\ pool_is_running
    /\ \A w \in Workers : ~alive[w]
    /\ \E c \in Callers : calls[c].pc = "raised"

\* C15: after a start() that found a worker dead, the pool is not running,
\* no worker or queue is registered and no worker process it spawned runs.
C15_FailedStartTornDown ==
    lifecycle.pc = "start_failed" =>
        /\ ~pool_is_running
        /\ ~registered
        /\ orphans = 0

\* C16: stop() puts the shutdown signal on every command queue, and when it
\* has returned every worker process has exited, the pool is not running
\* and no worker or queue is registered.
C16_StopLeavesNothing ==
    /\ [](lifecycle.pc = "stopped" =>
             /\ \A w \in Workers : ~alive[w]
             /\ orphans = 0
             /\ ~pool_is_running
             /\ ~registered)
    /\ [][(lifecycle.pc = "started" /\ lifecycle'.pc = "stopping") =>
             \A w \in Workers :
                 command_queues'[w] = Append(command_queues[w], Shutdown)]_vars

\* stop() has returned after one worker left on the shutdown signal and
\* another one, busy with a command, was terminated.
C16_Witness ==
    /\ lifecycle.pc = "stopped"
    /\ \E w \in Workers : worker_pc[w] = "handling"
    /\ \E w \in Workers : worker_pc[w] = "get" /\ command_queues[w] = <<>>

\* C17: a call whose deadline has passed returns the TimeoutError result
\* that carries the id of its command, and the step changes nothing of the
\* workers: not their liveness, not what they are doing, not their command
\* queues, and their result queues only get back what the call had buffered.
C17_TimeoutLeavesWorker ==
    [][\A c \in Callers :
          (calls[c].pc = "polling" /\ calls[c].expired /\ calls'[c].pc = "done") =>
              LET k == calls[c].command_id
                  w == calls[c].worker
              IN /\ outcomes'[k] = Append(outcomes[k], <<"TimeoutError", k>>)
                 /\ alive' = alive
                 /\ pool_is_running' = pool_is_running
                 /\ registered' = registered
                 /\ worker_pc' = worker_pc
                 /\ worker_command' = worker_command
                 /\ command_queues' = command_queues
                 /\ result_queues' = [result_queues EXCEPT ![w] = @ \o calls[c].unmatched]]_vars

\* A call has timed out on a worker that is alive and still busy with the
\* command of that call.
C17_Witness ==
    \E k \in CommandIds : \E w \in Workers :
        /\ outcomes[k] = <<<<"TimeoutError", k>>>>
        /\ alive[w]
        /\ worker_pc[w] = "handling"
        /\ worker_command[w] = k

\* C18: the effective timeout of a fill_form command is at least 120
\* seconds, with or without a timeout passed by the caller.
C18_FillFormFloor ==
    timeout_call.command_type = "fill_form" =>
        timeout_call.effective >= fill_form_floor

\* seq is the beginning of full
IsPrefix(seq, full) == Len(seq) <= Len(full) /\ seq = SubSeq(full, 1, Len(seq))

\* The latest stage executed is `stage`, and the run does not end in success.
EndsAt(stage) ==
    /\ workflow.executed # <<>>
    /\ workflow.executed[Len(workflow.executed)] = stage
    /\ workflow.result # "success"

C20_CaptchaEndsRun ==
    workflow.captcha_found =>
        /\ \A i \in 1..Len(workflow.executed) :
              workflow.executed[i] \notin {"analyze", "map", "fill", "submit", "confirm"}
        /\ workflow.pc \in {"close", "returned"}
        /\ workflow.result = "captcha_required"

\* C21: a run of submit_to_directory that has ended, by a return or by an
\* exception, holds none of its page, browser and driver any more.
C21_ResourcesReleased ==
    workflow.pc \in {"returned", "raised"} => workflow.open = {}

\* C22: once the confirmation step has given its status, the result the run
\* returns carries that status, whatever the screenshot capture did.
C22_ScreenshotNeverGates ==
    (workflow.pc \in {"close", "returned"} /\ workflow.confirmation # "none")
        => workflow.result = workflow.confirmation

\* C24: two calls of execute_command that are in progress at the same time
\* for two different sessions (two submissions) are not served by the same
\* worker, hence not by the same page.
C24_PagesNotShared ==
    \A c1 \in Callers : \A c2 \in Callers \ {c1} :
        (/\ calls[c1].pc = "polling"
         /\ calls[c2].pc = "polling"
         /\ session_of[calls[c1].command_id] # NoSession
         /\ session_of[calls[c2].command_id] # NoSession
         /\ session_of[calls[c1].command_id] # session_of[calls[c2].command_id])
            => calls[c1].worker # calls[c2].worker

\* C23: a run whose submit step triggered no submission path (neither the
\* given selector, nor a submit-button pattern, nor the submit of a form) has
\* not run the confirmation step and ends with an error result.
C23_NoPathEndsRun ==
    (/\ \E i \in DOMAIN workflow.executed : workflow.executed[i] = "submit"
     /\ workflow.triggered = "none")
        => /\ \A i \in DOMAIN workflow.executed : workflow.executed[i] # "confirm"
           /\ workflow.pc \in {"close", "returned", "raised"}
           /\ workflow.result = "error"

\* C25: the percents written to the progress entry of a submission since its
\* latest attempt began all lie in 0..100, and none is lower than the one
\* written before it.
C25_ProgressMonotone ==
    \A s \in Ids : \A i \in DOMAIN progress_tracking[s] :
        /\ progress_tracking[s][i] \in 0..100
        /\ i > 1 => progress_tracking[s][i] >= progress_tracking[s][i - 1]

\* C26: the status of every row of the submissions table is pending,
\* submitted, approved, failed or auto_retry_failed_n with n in 1..4.
C26_StatusInClosedSet ==
    \A s \in Ids :
        db[s].status \in {"pending", "submitted", "approved", "failed"}
                         \cup {ARF(n) : n \in 1..(STOP_CEILING - 1)}

\* C27: an update of a processing task that sets status submitted sets
\* submitted_at as well, and the update that follows a pipeline result of
\* error or captcha_required does not set status submitted.
C27_SubmittedWithTimestamp ==
    /\ last_update.status = "submitted" => last_update.submitted_at
    /\ last_update.outcome \in {"error", "captcha_required"}
          => last_update.status # "submitted"

\* A task whose pipeline succeeded has written submitted with its timestamp
\* into the row of its submission.
C27_Witness ==
    /\ last_update.outcome = "success"
    /\ last_update.status = "submitted"
    /\ last_update.submitted_at
    /\ \E s \in Ids : db[s].status = "submitted"

\* C28: a command handled while the page handle was missing or closed and a
\* URL was remembered, on a browser that can be initialized and navigated,
\* has been performed after a re-navigation to that URL.
C28_HandlerRevalidates ==
    LET last == worker_session.last IN
    (/\ last.command_type \in CommandTypes \ {"navigate", "close"}
     /\ last.page \in {"none", "closed"}
     /\ last.has_url
     /\ last.ok)
        => last.result = "performed" /\ last.renavigated

\* C29: a call of stop_auto_retry raises retry_count by one, up to 5, and
\* sets auto_retry_failed_n below 5 and failed at 5; and a row that the
\* latest request, a stop_auto_retry, left failed at 5 is not put back to
\* pending by a pass of the scheduler.
C29_StopCeilingIsPermanent ==
    [][\A s \in Ids :
          /\ (StopAutoRetry /\ last_request' = <<"stop_auto_retry", s>>) =>
                /\ db'[s].retry_count = Min(db[s].retry_count + 1, STOP_CEILING)
                /\ db'[s].status = IF db'[s].retry_count < STOP_CEILING
                                   THEN ARF(db'[s].retry_count) ELSE "failed"
          /\ (/\ last_request = <<"stop_auto_retry", s>>
              /\ db[s].status = "failed"
              /\ db[s].retry_count = STOP_CEILING
              /\ SchedulerCycle)
                => db'[s].status # "pending"]_vars

\* C30: an analysis for which the model was unavailable, raised, or answered
\* with nothing that can be parsed or with no field returns a structure of
\* the DOM extraction, which holds every field that this extraction found.
C30_FallbackKeepsDomFields ==
    \A a \in {workflow.analysis, hybrid_call} :
        a.llm \in {"no_reader", "no_client", "raises", "unparseable", "empty"}
            => a.method # "ai" /\ a.dom \subseteq a.fields

\* The pipeline fell back after an answer that could not be parsed, and a
\* hybrid analysis of a form with fields after a call that raised.
C30_Witness ==
    /\ workflow.analysis.llm = "unparseable"
    /\ workflow.analysis.dom # {}
    /\ workflow.analysis.method = "dom"
    /\ workflow.analysis.fields = workflow.analysis.dom
    /\ hybrid_call.llm = "raises"
    /\ hybrid_call.dom = 1..MaxFields
    /\ hybrid_call.fields = hybrid_call.dom

\* C31: the list of fields that a DOM extraction returns holds no field whose
\* input kind is hidden, whatever the form holds, in the extractor of the
\* pipeline's browser and in the worker's extractor.
C31_NoHiddenField ==
    \A f \in extract_call.fields : f.type # "hidden"

\* The browser's extractor returned the other fields of a form that holds a
\* hidden input.
C31_Witness ==
    /\ extract_call.mode = "direct"
    /\ \E i \in DOMAIN extract_call.elements : extract_call.elements[i] = "hidden"
    /\ extract_call.fields # {}
    /\ ~extract_call.error

\* C32: in the DOM-based mapping a field with a purpose tag other than
\* `other` receives the product attribute of that purpose, whatever its
\* text holds; so a form of fields purposed name, url and email is mapped
\* to exactly the name, the url and the contact email of the product.
C32_MappedByPurpose ==
    \A i \in DOMAIN mapping_call.mapped :
        LET field == mapping_call.fields[i]
        IN (field.purpose # "other" /\ field.purpose \in mapping_call.saas_data)
               => mapping_call.mapped[i] = field.purpose

\* C33: classify gives the same purpose when it is called again with the same
\* text and type; the types email, url and file give email, url and logo
\* whatever the text; for another type the purpose is `other` when no
\* pattern matches, and else the purpose with the highest score that comes
\* first in the table.
C33_ClassifyIsDeterministic ==
    LET c == classify_call
        Shortcut == [email |-> "email", url |-> "url", file |-> "logo"]
    IN c.purpose # "none" =>
        /\ c.again \in {"none", c.purpose}
        /\ c.field_type \in DOMAIN Shortcut => c.purpose = Shortcut[c.field_type]
        /\ c.field_type \notin DOMAIN Shortcut =>
              IF \A i \in DOMAIN c.scores : c.scores[i] = 0
              THEN c.purpose = "other"
              ELSE \E i \in DOMAIN c.scores :
                      /\ c.purpose = PURPOSE_KEYWORDS[i]
                      /\ \A j \in DOMAIN c.scores : c.scores[j] <= c.scores[i]
                      /\ \A j \in 1..(i - 1) : c.scores[j] < c.scores[i]

\* A text that matches the patterns of url and of description equally often,
\* classified twice as url.
C33_Witness ==
    /\ classify_call.field_type = "text"
    /\ classify_call.scores = <<0, 1, 0, 1, 0, 0>>
    /\ classify_call.purpose = "url"
    /\ classify_call.again = "url"

\* The number of handles `h` in a queue of the loop.
CountIn(h, queue) == Cardinality({i \in DOMAIN queue : queue[i] = h})

\* C34: a pass of the scheduler puts a failed submission back to pending only
\* if its retry_count is below max_retries, its cooldown has elapsed, no
\* task of it is live and a processing slot is free; the requeue raises
\* retry_count by one and starts exactly one task for the submission.
C34_RequeueOnlyWhenDue ==
    [][\A s \in Ids :
          (SchedulerCycle /\ db[s].status = "failed" /\ db'[s].status = "pending")
              => /\ db[s].retry_count < max_retries
                 /\ db[s].cooled
                 /\ LiveTasks(s) = 0
                 /\ TotalLive < max_concurrent
                 /\ db'[s].retry_count = db[s].retry_count + 1
                 /\ processing_tasks'[s].phase = "new"
                 /\ CountIn(FirstStep(s), next') = CountIn(FirstStep(s), next) + 1]_vars

\* What the call of caller c has returned for its command.
Returned(c) == outcomes[calls[c].command_id]

\* C35: every call of execute_command that waits for its result returns: the
\* result that carries the id of its command, or the TimeoutError result,
\* and this one only after its deadline has passed; it waits a positive
\* time between two passes of its loop.
C35_CallTerminates ==
    /\ poll_interval_ms > 0
    /\ [](\A c \in Callers :
             calls[c].pc = "done" =>
                 /\ Returned(c) # <<>>
                 /\ \/ Returned(c)[Len(Returned(c))] = <<"result", calls[c].command_id>>
                    \/ /\ Returned(c)[Len(Returned(c))]
                             = <<"TimeoutError", calls[c].command_id>>
                       /\ calls[c].expired)
    /\ \A c \in Callers : (calls[c].pc = "polling") ~> (calls[c].pc = "done")

\* A call has returned the TimeoutError result for a command whose worker
\* died while handling it.
C35_Witness ==
    \E c \in Callers :
        /\ calls[c].pc = "done"
        /\ calls[c].expired
        /\ ~alive[calls[c].worker]
        /\ worker_command[calls[c].worker] = calls[c].command_id
        /\ Returned(c) = <<<<"TimeoutError", calls[c].command_id>>>>

\* C36: the pipeline of a submission is run at most max_retries times in
\* all, whatever the scheduler, the tasks and the requests to retry the
\* failed submissions do.
C36_AtMostMaxRetriesRuns ==
    \A s \in Ids : runs[s] <= max_retries

\* C37: once the status of a submission is submitted, no step of the
\* scheduler or of a processing task changes the status, and no run of its
\* pipeline begins.
C37_SubmittedIsFinal ==
    [][\A s \in Ids :
          db[s].status = "submitted" =>
              /\ db'[s].status = "submitted"
              /\ ~PipelineStarts(s)]_vars

\* The buffer of unmatched results of the call of c holds the result of k.
Holds(c, k) == Copies(calls[c].unmatched, k) > 0

\* C38: when the deadline of a waiting call passes after the worker has sent
\* the result of its command and that of another call waiting on the same
\* result queue whose deadline has not passed, the result of the call is not
\* in the buffer of that other call: the call does not time out over a
\* result that the other call holds.
C38_NoTimeoutOverBufferedResult ==
    [][\A c, d \in Callers :
          (/\ c # d
           /\ calls[c].pc = "polling" /\ calls[d].pc = "polling"
           /\ calls[c].worker = calls[d].worker
           /\ emitted[calls[c].command_id] > 0
           /\ emitted[calls[d].command_id] > 0
           /\ ~calls[d].expired
           /\ ~calls[c].expired /\ calls'[c].expired)
              => ~Holds(d, calls[c].command_id)]_vars

\* No execute_command call waits on the result queue of worker w, and the
\* worker waits for a command with none queued.
IdleWorker(w) ==
    /\ alive[w]
    /\ worker_pc[w] = "get"
    /\ command_queues[w] = <<>>
    /\ \A c \in Callers : ~(calls[c].pc = "polling" /\ calls[c].worker = w)

\* C39: the result queue of an idle worker on which no call is in progress is
\* empty; the result of a command whose caller timed out does not stay on
\* it.
C39_IdleResultQueueEmpty ==
    \A w \in Workers : IdleWorker(w) => result_queues[w] = <<>>

\* The manager left to its scheduler: the event loop runs every handle it
\* has queued, the scheduler wakes after each sleep, every pipeline returns
\* or raises, and the cooldown of a failed row passes.
SettleFairness ==
    /\ WF_vars(Start)
    /\ WF_vars(LoopTurn)
    /\ WF_vars(SchedulerCycle)
    /\ WF_vars(TaskStartTracked)
    /\ WF_vars(TaskFinishTracked)
    /\ WF_vars(TaskStartDetached)
    /\ WF_vars(TaskFinishDetached)
    /\ WF_vars(CleanupTask)
    /\ WF_vars(CooldownElapses)

SettleSpec == Init /\ [][SchedulerStep]_vars /\ SettleFairness

Settled(row) == row.status = "submitted" \/ PermanentlyFailed(row)

\* A done-callback is about to drop a live task while MaxDetached dropped
\* tasks are still alive: the behaviour leaves the tasks the model keeps.
DetachedBoundReached ==
    \E s \in Ids :
        /\ Runs(Cleanup(s))
        /\ Live(processing_tasks[s])
        /\ BagCardinality(detached) >= MaxDetached

\* C40: with the scheduler running fairly, pipelines that end and no
\* operator request, every submission is eventually submitted, or failed with
\* retry_count >= max_retries, and stays so; in every behaviour that keeps
\* within MaxDetached dropped tasks alive at a time.
C40_EverySubmissionSettles ==
    \A s \in Ids : (<>[]Settled(db[s])) \/ <>DetachedBoundReached

\* Both submissions are settled and no task is left, one of them failed for
\* good after its retries, the other submitted.
C40_Witness ==
    /\ TotalLive = 0
    /\ ready = <<>> /\ next = <<>>
    /\ \A s \in Ids : Settled(db[s])
    /\ \E s \in Ids : PermanentlyFailed(db[s])
    /\ \E s \in Ids : db[s].status = "submitted"

=============================================================================
